---- MODULE Spec2Model ----
(***************************************************************************)
(* Tracekit central-pending scheduling: the dispatcher appends tasks to    *)
(* q:pending, the central scheduler moves the head of q:pending to a       *)
(* per-node queue q:<node> under the cap:<node> counter and the            *)
(* slots:available token list, and each worker fetches, runs and releases. *)
(* Every broker (Redis) command is one atomic step; the scheduler and the  *)
(* worker threads interleave between commands.                             *)
(* Node ids are the integers 1..2; their numeric order stands for the      *)
(* lexicographic order of sorted(hosts).  0 stands for Python's None.      *)
(***************************************************************************)
EXTENDS Integers, Sequences, FiniteSets, TLC

\* ---- bounds of the model -------------------------------------------------
NumTasks == 3
PlanTasks == 2
MaxUnits == 2
MaxErrors == 1
MaxRestarts == 1
MaxCores == 3
MaxReq == 4
MaxActive == 3
MaxClock == 2
MaxBatch == 2
MaxWall == 2
MaxTickMs == 2
MaxBootFrac == 1
MaxRaw == 3
MaxTs == 2
MaxPid == 2
MaxTicks == 1
MaxInv == 2
MaxCpus == 5
MaxPinUnits == 5
MaxExec == 2
MaxFragTs == 4
MaxFragDt == 3
MaxCpuMs == 1
MaxSamples == 2
MaxNodeCores == 2
MaxBacklog == 2

\* ---- program constants ---------------------------------------------------
\* --scan-slots default: 0 = scan all available tokens
ScanSlots == 0
\* dispatcher defaults: --pending-max, --pulse-size, --batch-size
PendingMax == 6
PulseSize == 10
BatchSize == 1
\* dispatcher default: --backlog-limit
BacklogLimit == 1
\* parse_sys.py: CLK_TCK when getconf fails
CLK_TCK == 100
\* a JSON value that is not an int (missing, null, a string)
NotInt == -1
\* export_opendc.py: _safe_freq_mhz when the node has no frequency
FreqMhz == 2400

Nodes == {1, 2}
Tasks == 1..NumTasks
None == 0

\* --capacity-units of each worker (node 1 is the small node)
CapUnits(nd) == nd

VARIABLES
    units,          \* the dispatcher's plan: cpu_units of each task of global_list (0: no such task)
    parallel,       \* --parallel of each worker
    weigher,        \* --weigher of the scheduler
    weigher_order,  \* --weigher-order of the scheduler
    idx,            \* dispatcher: number of tasks already pushed
    pending,        \* q:pending
    q,              \* q:<node>
    slots,          \* slots:available
    cap,            \* cap:<node>
    cap_keys,       \* the nodes whose cap:<node> key exists
    cap_total,      \* cap_total:<node>
    run_count,      \* run_count:<node>
    pc,             \* scheduler: position in the loop body
    path,           \* scheduler: "noslot", "slot" or "fallback"
    task_raw,       \* scheduler: the peeked head of pending
    need,           \* scheduler: cpu_units of the peeked task
    n,              \* scheduler: the LLEN snapshot of slots
    hosts,          \* scheduler: hosts still to be read in the feasibility scan
    feasible,       \* scheduler: feasible hosts found so far
    chosen,         \* scheduler: chosen host of the slot / no-slot path
    nid,            \* scheduler: chosen host of the capacity-only fallback
    cap_free,       \* scheduler: the value read from cap:<node> before the set
    items,          \* scheduler, _choose_host: host -> metric read so far
    cf,             \* scheduler, _metric_vcpu: the cap:<node> value read
    rot,            \* scheduler: iterations of the RPOPLPUSH loop done
    task_q,         \* worker: the in-process Queue fed by fetch_loop
    wstate,         \* worker: where each taken task is in worker_loop
    wnode,          \* worker: the node whose executor took the task
    outcome,        \* worker: how run_task ended for the task
    threads,        \* worker: executor threads still alive
    ret,            \* log: what the worker has released for each task
    errs,           \* broker errors raised so far
    regpc,          \* worker main(): position in the registration block
    regleft,        \* worker main(): tokens still to push
    reset,          \* worker main(): --reset-capacity of the running registration
    restarts,       \* worker restarts so far
    cap_units,      \* worker main(): the computed capacity of the node
    total_cores,    \* shared mode: psutil.cpu_count() of the worker's machine
    active_units,   \* shared mode: unit_name -> requested vCPUs
    shares,         \* shared mode: the shares of the last recompute
    quota,          \* shared mode: CPUQuota (percent) of each systemd scope that exists
    cpu_quota,      \* shared mode: t["cpu_quota"] of each admitted task, by unit name
    pending_mode,   \* dispatcher: --pending-mode, "pulse" or "fifo"
    pulse_size,     \* dispatcher: --pulse-size
    batch_size,     \* dispatcher: --batch-size
    pending_max,    \* dispatcher: --pending-max
    dpc,            \* dispatcher, fifo mode: "llen" (outer loop) or "push" (inner loop)
    qlen,           \* dispatcher, fifo mode: its running estimate of LLEN q:pending
    sent,           \* dispatcher: tasks pushed in the current pulse / batch
    last_enq_ms,    \* dispatcher: the last ts_enqueue it stamped
    ts_enqueue,     \* the ts_enqueue field of each task's payload (0: not stamped)
    wall,           \* the wall clock, in ms
    tick_ms,        \* the length of a clock tick (1000 / SC_CLK_TCK), in ms
    boot_frac,      \* the part of the boot time that btime (whole seconds) drops, in ms
    wrap,           \* ffmpeg_wrapper of each task: "-", "child", "read" or "emitted"
    start_ticks,    \* ffmpeg_wrapper: field 22 of /proc/<pid>/stat of the child
    w_ts_start,     \* ffmpeg_wrapper: ts_start
    events,         \* events.ffmpeg.jsonl: the span records appended
    raw,            \* parse_sys: the lines of logs/proc_metrics.jsonl still to read
    last,           \* parse_sys: pid -> <<utime + stime, ts_ms>> of the reference sample
    merged,         \* parse_sys: the records written to cctf/proc_metrics.jsonl
    invocations,    \* export_opendc: node -> the pids of its invocations, in file order
    task_id_mode,   \* export_opendc: --task-id-mode
    epc,            \* export_opendc: "scan", "map", "tasks" or "done"
    todo,           \* export_opendc: the invocations the pid scan has yet to visit
    pids,           \* export_opendc: the distinct pids in first-seen order
    conflicts,      \* export_opendc: a pid was seen twice
    pid_to_task_id, \* export_opendc: the pid -> id mapping
    task_ids,       \* export_opendc: the id column of tasks_df, in row order
    pinned,         \* exclusive mode: executor index -> the task it runs and its cpuset
    task_start,     \* generate_fragments: ts_start of the task's invocation
    task_end,       \* generate_fragments: ts_end of the task's invocation
    proc_metrics,   \* generate_fragments: the normalised samples of the task's pid
    cpu_cores,      \* generate_fragments: node_meta cpu_cores
    gpc,            \* generate_fragments: "group", "head", "loop", "missing" or "done"
    task_cpu_samples, \* generate_fragments: the in-window samples, sorted
    gi,             \* generate_fragments: index of the loop over task_cpu_samples
    head_duration,  \* generate_fragments: duration of the synthesized head (0: none)
    fragments,      \* generate_fragments: the fragments of the task, in order
    submit,         \* dispatcher: "pending" (--pending), "drip" (--drip) or "direct"
    global_list,    \* dispatcher, direct and drip: the plan as <<node, task>> pairs
    backlog,        \* dispatcher, drip: node -> its estimate of LLEN q:<node>
    bleft,          \* dispatcher, drip: the nodes whose LLEN is still to be read
    backlog_limit   \* dispatcher: --backlog-limit

cfgv == <<units, parallel, weigher, weigher_order>>
brokerv == <<pending, q, slots, cap, cap_keys, cap_total, run_count>>
weighv == <<items, cf>>
localv == <<path, task_raw, need, n, hosts, feasible, chosen, nid, cap_free, rot, weighv>>
schedv == <<pc, path, task_raw, need, n, hosts, feasible, chosen, nid, cap_free, rot, weighv>>
workv == <<task_q, wstate, wnode, outcome, threads, ret>>
regv == <<regpc, regleft, reset, restarts, cap_units>>
sharev == <<total_cores, active_units, shares, quota, cpu_quota>>
\* the variables of the subsystems the scheduling actions never touch
dargv == <<pending_mode, pulse_size, batch_size, pending_max>>
dispv == <<dargv, dpc, qlen, sent, last_enq_ms, ts_enqueue>>
clockv == <<wall, tick_ms, boot_frac>>
wrapv == <<wrap, start_ticks, w_ts_start, events>>
normv == <<raw, last, merged>>
expv == <<invocations, task_id_mode, epc, todo, pids, conflicts, pid_to_task_id, task_ids>>
pinv == <<pinned>>
\* the variables of the worker's CPU controls and of the later pipeline stages
fragv == <<task_start, task_end, proc_metrics, cpu_cores, gpc, task_cpu_samples, gi, head_duration, fragments>>
dripv == <<submit, global_list, backlog, bleft, backlog_limit>>
morev == <<pinv, fragv, dripv>>
auxv == <<sharev, dispv, clockv, wrapv, normv, expv, morev>>
vars == <<cfgv, idx, brokerv, schedv, workv, errs, regv, auxv>>

\* ---- helpers -------------------------------------------------------------
RECURSIVE SumOver(_, _)
SumOver(S, f) == IF S = {} THEN 0
                 ELSE LET x == CHOOSE y \in S : TRUE
                      IN f[x] + SumOver(S \ {x}, f)

Max(a, b) == IF a >= b THEN a ELSE b
Min(a, b) == IF a <= b THEN a ELSE b

RECURSIVE Sorted(_)
Sorted(S) == IF S = {} THEN <<>>
             ELSE LET x == CHOOSE y \in S : \A z \in S : y <= z
                  IN <<x>> \o Sorted(S \ {x})

Range(s) == {s[i] : i \in 1..Len(s)}
Front(s) == SubSeq(s, 1, Len(s) - 1)
Count(s, v) == Cardinality({i \in 1..Len(s) : s[i] = v})
Repeat(v, k) == [i \in 1..k |-> v]

\* LREM key 1 value: remove the first occurrence from the head
RemoveFirst(s, v) ==
    IF v \notin Range(s) THEN s
    ELSE LET i == CHOOSE j \in 1..Len(s) : s[j] = v /\ \A k \in 1..(j - 1) : s[k] # v
         IN SubSeq(s, 1, i - 1) \o SubSeq(s, i + 1, Len(s))

\* LREM key 0 value: remove every occurrence
RemoveAll(s, v) == SelectSeq(s, LAMBDA x : x # v)

\* int(r.get("cap:<nid>") or 0)
_cap_free(h) == IF h \in cap_keys THEN cap[h] ELSE 0

\* int(r.get("cap_total:<nid>")), 0 when absent
_cap_total(h) == cap_total[h]

_metric_instances(h) == run_count[h]

\* used = ct - cf, from the two values read
_metric_vcpu(cfv, ct) == IF ct <= 0 THEN 0 ELSE Max(0, ct - cfv)

\* items.append((m, nid)): the metric read for h
Metric(h) == items[h]

NoItems == [h \in {} |-> 0]

\* (m1, h1) sorts before (m2, h2)
Before(m1, h1, m2, h2) == m1 < m2 \/ (m1 = m2 /\ h1 <= h2)

\* a host selection that ignores the weigher
ChooseHostFirstFit(F) == IF F = {} THEN None ELSE CHOOSE h \in F : \A g \in F : h <= g

_choose_host(F) ==
    IF F = {} THEN None
    ELSE IF weigher = "" THEN CHOOSE h \in F : \A g \in F : h <= g
    ELSE IF weigher_order = "max"
         THEN CHOOSE h \in F : \A g \in F : Before(Metric(g), g, Metric(h), h)
         ELSE CHOOSE h \in F : \A g \in F : Before(Metric(h), h, Metric(g), g)

MaxScan(len) == IF ScanSlots <= 0 THEN len ELSE Min(len, ScanSlots)

\* num_threads of a worker
NumThreads(nd) == IF parallel[nd] > 0 THEN parallel[nd] ELSE Max(1, cap_units[nd])

\* task_q maxsize (0 = unbounded)
QueueRoom(nd) == parallel[nd] <= 0 \/ Len(task_q[nd]) < parallel[nd] * 2

\* len(global_list): the tasks of the plan are 1..PlanLen
PlanLen == Cardinality({t \in Tasks : units[t] > 0})

\* the plans of k tasks, each of 1..MaxUnits cpu_units
Plans(k) == {p \in [Tasks -> 0..MaxUnits] : \A t \in Tasks : p[t] = 0 <=> t > k}

\* the plan of the given cpu_units
Plan(s) == [t \in Tasks |-> IF t <= Len(s) THEN s[t] ELSE 0]

\* the scheduler command lines and the worker --parallel settings explored
Weighers == {<<"", "min">>, <<"instances", "min">>, <<"vcpu", "max">>}
ParallelArgs == {<<0, 0>>, <<1, 1>>, <<2, 0>>, <<1, 2>>}

\* ---- initial state: broker empty, every worker registered once ----------
\* P: the plans, A: the --parallel settings, W: the weigher settings
SchedInit(P, A, W) ==
    /\ units \in P
    /\ parallel \in A
    /\ \E w \in W : weigher = w[1] /\ weigher_order = w[2]
    /\ idx = 0
    /\ pending = <<>>
    /\ q = [nd \in Nodes |-> <<>>]
    /\ slots \in {Repeat(1, parallel[1]) \o Repeat(2, parallel[2]),
                  Repeat(2, parallel[2]) \o Repeat(1, parallel[1])}
    /\ cap = [nd \in Nodes |-> CapUnits(nd)]
    /\ cap_keys = Nodes
    /\ cap_total = [nd \in Nodes |-> CapUnits(nd)]
    /\ run_count = [nd \in Nodes |-> 0]
    /\ pc = "peek"
    /\ path = "noslot"
    /\ task_raw = None
    /\ need = 0
    /\ n = 0
    /\ hosts = <<>>
    /\ feasible = {}
    /\ chosen = None
    /\ nid = None
    /\ cap_free = 0
    /\ rot = 0
    /\ items = NoItems
    /\ cf = 0
    /\ task_q = [nd \in Nodes |-> <<>>]
    /\ wstate = [t \in Tasks |-> "-"]
    /\ wnode = [t \in Tasks |-> None]
    /\ outcome = [t \in Tasks |-> "-"]
    /\ cap_units = [nd \in Nodes |-> CapUnits(nd)]
    /\ threads = [nd \in Nodes |-> IF parallel[nd] > 0 THEN parallel[nd] ELSE Max(1, CapUnits(nd))]
    /\ ret = [t \in Tasks |-> <<0, 0, 0>>]
    /\ errs = 0
    /\ regpc = [nd \in Nodes |-> "up"]
    /\ regleft = [nd \in Nodes |-> 0]
    /\ reset = [nd \in Nodes |-> FALSE]
    /\ restarts = 0

UnitNames == 1..MaxActive
NoUnits == [u \in {} |-> 0]

\* shared mode not in use: no active unit
ShareIdle ==
    /\ total_cores = 1
    /\ active_units = NoUnits
    /\ shares = NoUnits
    /\ quota = NoUnits
    /\ cpu_quota = NoUnits

\* the dispatcher before its first push; M: modes, PS: --pulse-size values,
\* BS: --batch-size values, PM: --pending-max values
DispInit(M, PS, BS, PM) ==
    /\ pending_mode \in M
    /\ pulse_size \in PS
    /\ batch_size \in BS
    /\ pending_max \in PM
    /\ dpc = IF pending_mode = "fifo" THEN "llen" ELSE "push"
    /\ qlen = 0
    /\ sent = 0
    /\ last_enq_ms = 0
    /\ ts_enqueue = [t \in Tasks |-> 0]

\* the dispatcher's defaults
DispDefault == DispInit({"pulse"}, {PulseSize}, {BatchSize}, {PendingMax})

\* no wrapper started, nothing logged, the clock standing still
WrapIdle ==
    /\ wall = 1
    /\ tick_ms = 1
    /\ boot_frac = 0
    /\ wrap = [t \in Tasks |-> "-"]
    /\ start_ticks = [t \in Tasks |-> 0]
    /\ w_ts_start = [t \in Tasks |-> 0]
    /\ events = <<>>

\* the normalizer not run
NormIdle ==
    /\ raw = <<>>
    /\ last = [p \in {} |-> <<0, 0>>]
    /\ merged = <<>>

\* the exporter started on the logs of the nodes: inv maps each node to the
\* pids of its invocations, m is --task-id-mode
ExportInit(I, M) ==
    /\ invocations \in I
    /\ task_id_mode \in M
    /\ epc = "scan"
    /\ todo = invocations[1] \o invocations[2]
    /\ pids = <<>>
    /\ conflicts = FALSE
    /\ pid_to_task_id = [p \in {} |-> 0]
    /\ task_ids = <<>>

\* no invocation logged, nothing to export
ExportIdle == ExportInit({[nd \in Nodes |-> <<>>]}, {"auto"})

\* the executor indices of a worker: range(num_threads)
SlotIdx == 0..(MaxExec - 1)

\* an executor that runs no task
NoPin == [busy |-> FALSE, units |-> 0, given |-> FALSE, lo |-> 0, hi |-> 0]

\* exclusive mode: every executor idle
PinIdle == pinned = [i \in SlotIdx |-> NoPin]

\* generate_fragments for one task; W: the windows <<ts_start, ts_end>>,
\* S: the samples files, K: the core counts of the node
FragInit(W, S, K) ==
    /\ \E w \in W : task_start = w[1] /\ task_end = w[2]
    /\ proc_metrics \in S
    /\ cpu_cores \in K
    /\ gpc = "group"
    /\ task_cpu_samples = <<>>
    /\ gi = 0
    /\ head_duration = 0
    /\ fragments = <<>>

\* a task without samples, not yet exported
FragIdle == FragInit({<<1, 1>>}, {<<>>}, {1})

\* the flattened offline plan: "for n in nodes: for t in tasks[n]", a being
\* the node each task of the plan is assigned to
Flatten(a) ==
    LET of(nd) == SelectSeq([t \in 1..PlanLen |-> t], LAMBDA t : a[t] = nd)
    IN [i \in 1..Len(of(1)) |-> <<1, of(1)[i]>>] \o [i \in 1..Len(of(2)) |-> <<2, of(2)[i]>>]

\* the dispatcher started without --pending; M: "direct" or "drip",
\* L: the --backlog-limit values
DripInit(M, L) ==
    /\ submit \in M
    /\ \E a \in [1..PlanLen -> Nodes] : global_list = Flatten(a)
    /\ backlog = [nd \in Nodes |-> 0]
    /\ bleft = Sorted(Nodes)
    /\ backlog_limit \in L

\* the dispatcher started with --pending: no per-node submission
DripIdle ==
    /\ submit = "pending"
    /\ global_list = <<>>
    /\ backlog = [nd \in Nodes |-> 0]
    /\ bleft = <<>>
    /\ backlog_limit = BacklogLimit

MoreIdle == PinIdle /\ FragIdle /\ DripIdle

\* the subsystems around the scheduling core, idle
AuxIdle == ShareIdle /\ DispDefault /\ WrapIdle /\ NormIdle /\ ExportIdle /\ MoreIdle

Init == SchedInit(Plans(PlanTasks), ParallelArgs, Weighers) /\ AuxIdle

\* a stamp that trusts the wall clock
StampWallClock(now) == now

\* now_ms = int(time.time() * 1000); if now_ms <= last_enq_ms: now_ms = last_enq_ms + 1
Stamp(now) == IF now <= last_enq_ms THEN last_enq_ms + 1 ELSE now

\* t["ts_enqueue"] = now_ms; r.rpush("q:pending", json.dumps(t)); idx += 1
Push(now) ==
    /\ last_enq_ms' = Stamp(now)
    /\ ts_enqueue' = [ts_enqueue EXCEPT ![idx + 1] = Stamp(now)]
    /\ pending' = Append(pending, idx + 1)
    /\ idx' = idx + 1

\* a dispatcher that pushes to the head of q:pending (lpush for rpush)
EnqueueLpush ==
    /\ pending_mode = "pulse"
    /\ idx < PlanLen
    /\ \E now \in 1..MaxClock :
          /\ last_enq_ms' = Stamp(now)
          /\ ts_enqueue' = [ts_enqueue EXCEPT ![idx + 1] = Stamp(now)]
    /\ pending' = <<idx + 1>> \o pending
    /\ idx' = idx + 1
    /\ sent' = IF sent + 1 >= Max(1, pulse_size) THEN 0 ELSE sent + 1
    /\ UNCHANGED <<cfgv, q, slots, cap, cap_keys, cap_total, run_count, schedv, workv, errs, regv>>
    /\ UNCHANGED <<sharev, dargv, dpc, qlen, clockv, wrapv, normv, expv, morev>>

\* ---- dispatcher, --pending --pending-mode pulse --------------------------
\* one push of the inner loop; the pulse ends after max(1, pulse_size) pushes
\* Clock: the values time.time() may return
EnqueueAt(Clock) ==
    /\ pending_mode = "pulse"
    /\ idx < PlanLen
    /\ \E now \in Clock : Push(now)
    /\ sent' = IF sent + 1 >= Max(1, pulse_size) THEN 0 ELSE sent + 1
    /\ UNCHANGED <<cfgv, q, slots, cap, cap_keys, cap_total, run_count, schedv, workv, errs, regv>>
    /\ UNCHANGED <<sharev, dargv, dpc, qlen, clockv, wrapv, normv, expv, morev>>

\* a wall clock that may stand still or step back between two pushes
Enqueue == EnqueueAt(1..MaxClock)

\* ---- dispatcher, --pending --pending-mode fifo ---------------------------
\* the inner loop runs while sent < batch_size, idx < len(global_list) and
\* qlen < pending_max
\* an inner loop without the pending_max guard
InnerGoesNoGuard(s, i, l) == s < batch_size /\ i < PlanLen

InnerGoes(s, i, l) == s < batch_size /\ i < PlanLen /\ l < pending_max

\* qlen = int(r.llen("q:pending")); sent = 0
FifoLlen ==
    /\ pending_mode = "fifo"
    /\ dpc = "llen"
    /\ idx < PlanLen
    /\ qlen' = Len(pending)
    /\ sent' = 0
    /\ dpc' = IF InnerGoes(0, idx, Len(pending)) THEN "push" ELSE "llen"
    /\ UNCHANGED <<cfgv, idx, brokerv, schedv, workv, errs, regv>>
    /\ UNCHANGED <<sharev, dargv, last_enq_ms, ts_enqueue, clockv, wrapv, normv, expv, morev>>

\* one push of the inner loop, then the loop test
FifoPush ==
    /\ pending_mode = "fifo"
    /\ dpc = "push"
    /\ \E now \in 1..MaxClock : Push(now)
    /\ qlen' = qlen + 1
    /\ sent' = sent + 1
    /\ dpc' = IF InnerGoes(sent + 1, idx + 1, qlen + 1) THEN "push" ELSE "llen"
    /\ UNCHANGED <<cfgv, q, slots, cap, cap_keys, cap_total, run_count, schedv, workv, errs, regv>>
    /\ UNCHANGED <<sharev, dargv, clockv, wrapv, normv, expv, morev>>

Dispatcher == Enqueue \/ FifoLlen \/ FifoPush

\* ---- dispatcher without --pending: direct and --drip ----------------------
\* for n in nodes: for t in tasks[n]: r.rpush(q, json.dumps(t))
DirectPush ==
    /\ submit = "direct"
    /\ dpc = "push"
    /\ idx < Len(global_list)
    /\ LET e == global_list[idx + 1]
       IN q' = [q EXCEPT ![e[1]] = Append(@, e[2])]
    /\ idx' = idx + 1
    /\ dpc' = IF idx + 1 < Len(global_list) THEN "push" ELSE "done"
    /\ UNCHANGED <<cfgv, pending, slots, cap, cap_keys, cap_total, run_count, schedv, workv, errs, regv>>
    /\ UNCHANGED <<sharev, dargv, qlen, sent, last_enq_ms, ts_enqueue, clockv, wrapv, normv, expv, pinv, fragv, dripv>>

\* where the drip loops stand once sent tasks of the batch are out and idx
\* entries of the plan are passed
DripGoes(s, i) ==
    IF s < batch_size /\ i < Len(global_list) THEN "push"
    ELSE IF i < Len(global_list) THEN "llen" ELSE "done"

\* idx += 1, whether or not the task was pushed
DripIdx(i, pushed) == i + 1

\* backlog = {n: int(r.llen(f"q:{n}")) for n in nodes}: one LLEN; sent = 0
\* after the last one
DripLlen ==
    /\ submit = "drip"
    /\ dpc = "llen"
    /\ idx < Len(global_list)
    /\ bleft # <<>>
    /\ backlog' = [backlog EXCEPT ![Head(bleft)] = Len(q[Head(bleft)])]
    /\ IF Tail(bleft) = <<>>
       THEN /\ bleft' = Sorted(Nodes)
            /\ sent' = 0
            /\ dpc' = DripGoes(0, idx)
       ELSE /\ bleft' = Tail(bleft)
            /\ UNCHANGED <<sent, dpc>>
    /\ UNCHANGED <<cfgv, idx, brokerv, schedv, workv, errs, regv>>
    /\ UNCHANGED <<sharev, dargv, qlen, last_enq_ms, ts_enqueue, clockv, wrapv, normv, expv, pinv, fragv>>
    /\ UNCHANGED <<submit, global_list, backlog_limit>>

\* one iteration of the inner loop: the task is pushed if the backlog of its
\* node is below the limit
DripStep ==
    /\ submit = "drip"
    /\ dpc = "push"
    /\ LET e == global_list[idx + 1]
           room == backlog[e[1]] < backlog_limit
       IN /\ q' = IF room THEN [q EXCEPT ![e[1]] = Append(@, e[2])] ELSE q
          /\ backlog' = IF room THEN [backlog EXCEPT ![e[1]] = @ + 1] ELSE backlog
          /\ sent' = IF room THEN sent + 1 ELSE sent
          /\ idx' = DripIdx(idx, room)
          /\ dpc' = DripGoes(sent', idx')
    /\ UNCHANGED <<cfgv, pending, slots, cap, cap_keys, cap_total, run_count, schedv, workv, errs, regv>>
    /\ UNCHANGED <<sharev, dargv, qlen, last_enq_ms, ts_enqueue, clockv, wrapv, normv, expv, pinv, fragv>>
    /\ UNCHANGED <<submit, global_list, bleft, backlog_limit>>

Drip == DirectPush \/ DripLlen \/ DripStep

\* ---- central scheduler ---------------------------------------------------
\* the locals are dead at the head of the loop: each is assigned before it is read
LoopHeadKeep(p) ==
    /\ pc' = p
    /\ path' = "noslot"
    /\ task_raw' = None
    /\ need' = 0
    /\ n' = 0
    /\ hosts' = <<>>
    /\ feasible' = {}
    /\ chosen' = None
    /\ nid' = None
    /\ cap_free' = 0
    /\ rot' = 0
    /\ cf' = 0

LoopHead(p) == LoopHeadKeep(p) /\ items' = NoItems

Target == IF path = "fallback" THEN nid ELSE chosen

\* a scheduler that returns a token to slots when it finds pending empty
PeekPushBack ==
    /\ pc = "peek"
    /\ IF pending = <<>>
       THEN /\ LoopHead("sleep")
            /\ slots' = Append(slots, 1)
       ELSE /\ pc' = "llen"
            /\ task_raw' = Head(pending)
            /\ need' = units[Head(pending)]
            /\ UNCHANGED <<slots, path, n, hosts, feasible, chosen, nid, cap_free, rot, weighv>>
    /\ UNCHANGED <<cfgv, idx, pending, q, cap, cap_keys, cap_total, run_count, workv, errs, regv, auxv>>

\* task_raw = r.lindex(pending, 0); need = int(cpu_units)
Peek ==
    /\ pc = "peek"
    /\ IF pending = <<>>
       THEN LoopHead("sleep")
       ELSE /\ pc' = "llen"
            /\ task_raw' = Head(pending)
            /\ need' = units[Head(pending)]
            /\ UNCHANGED <<path, n, hosts, feasible, chosen, nid, cap_free, rot, weighv>>
    /\ UNCHANGED <<cfgv, idx, brokerv, workv, errs, regv, auxv>>

\* time.sleep(0.05); continue
Wake ==
    /\ pc = "sleep"
    /\ pc' = "peek"
    /\ UNCHANGED <<cfgv, idx, brokerv, localv, workv, errs, regv, auxv>>

\* n = r.llen(slots) or 0
Llen ==
    /\ pc = "llen"
    /\ n' = Len(slots)
    /\ IF Len(slots) <= 0
       THEN pc' = "keys" /\ path' = "noslot"
       ELSE pc' = "lrange" /\ path' = "slot"
    /\ UNCHANGED <<task_raw, need, hosts, feasible, chosen, nid, cap_free, rot, weighv>>
    /\ UNCHANGED <<cfgv, idx, brokerv, workv, errs, regv, auxv>>

\* cap_keys = r.keys("cap:*"); hosts = sorted(set(hosts))
Keys ==
    /\ pc = "keys"
    /\ hosts' = Sorted(cap_keys)
    /\ feasible' = {}
    /\ pc' = IF cap_keys = {} THEN "choose" ELSE "scan"
    /\ UNCHANGED <<path, task_raw, need, n, chosen, nid, cap_free, rot, weighv>>
    /\ UNCHANGED <<cfgv, idx, brokerv, workv, errs, regv, auxv>>

\* tokens = r.lrange(slots, start, n - 1); hosts = sorted(order)
Lrange ==
    /\ pc = "lrange"
    /\ LET start == Max(0, n - MaxScan(n))
           tokens == SubSeq(slots, start + 1, Min(n, Len(slots)))
       IN /\ hosts' = Sorted(Range(tokens))
          /\ pc' = IF Range(tokens) = {} THEN "choose" ELSE "scan"
    /\ feasible' = {}
    /\ UNCHANGED <<path, task_raw, need, n, chosen, nid, cap_free, rot, weighv>>
    /\ UNCHANGED <<cfgv, idx, brokerv, workv, errs, regv, auxv>>

\* _choose_host reads a metric per feasible host only when a weigher is set
AfterScan(F) == IF weigher = "" \/ F = {} THEN "choose" ELSE "weigh"

\* a feasibility scan that accepts any host with some free capacity
ScanAnyCapacity ==
    /\ pc = "scan"
    /\ hosts # <<>>
    /\ feasible' = IF _cap_free(Head(hosts)) > 0 THEN feasible \cup {Head(hosts)} ELSE feasible
    /\ hosts' = Tail(hosts)
    /\ pc' = IF Tail(hosts) = <<>> THEN AfterScan(feasible') ELSE "scan"
    /\ UNCHANGED <<path, task_raw, need, n, chosen, nid, cap_free, rot, weighv>>
    /\ UNCHANGED <<cfgv, idx, brokerv, workv, errs, regv, auxv>>

\* one iteration of: for nid in hosts: if _cap_free(nid) >= need: feasible.append(nid)
Scan ==
    /\ pc = "scan"
    /\ hosts # <<>>
    /\ feasible' = IF _cap_free(Head(hosts)) >= need THEN feasible \cup {Head(hosts)} ELSE feasible
    /\ hosts' = Tail(hosts)
    /\ pc' = IF Tail(hosts) = <<>> THEN AfterScan(feasible') ELSE "scan"
    /\ UNCHANGED <<path, task_raw, need, n, chosen, nid, cap_free, rot, weighv>>
    /\ UNCHANGED <<cfgv, idx, brokerv, workv, errs, regv, auxv>>

\* the host of "for nid in feasible_hosts" whose metric is read next
NextToWeigh == CHOOSE h \in feasible \ DOMAIN items : \A g \in feasible \ DOMAIN items : h <= g

\* items.append((m, nid)) and the loop test
Weighed(m) ==
    /\ items' = [h \in DOMAIN items \cup {NextToWeigh} |->
                    IF h = NextToWeigh THEN m ELSE items[h]]
    /\ pc' = IF feasible \ DOMAIN items = {NextToWeigh} THEN "choose" ELSE "weigh"

\* _metric_instances(nid): r.get(run_count), or _metric_vcpu(nid): its first
\* read, r.get(cap)
Weigh ==
    /\ pc = "weigh"
    /\ IF weigher = "instances"
       THEN Weighed(_metric_instances(NextToWeigh)) /\ UNCHANGED cf
       ELSE cf' = _cap_free(NextToWeigh) /\ pc' = "weigh_total" /\ UNCHANGED items
    /\ UNCHANGED <<path, task_raw, need, n, hosts, feasible, chosen, nid, cap_free, rot>>
    /\ UNCHANGED <<cfgv, idx, brokerv, workv, errs, regv, auxv>>

\* _metric_vcpu(nid): its second read, r.get(cap_total)
WeighTotal ==
    /\ pc = "weigh_total"
    /\ Weighed(_metric_vcpu(cf, _cap_total(NextToWeigh)))
    /\ cf' = 0
    /\ UNCHANGED <<path, task_raw, need, n, hosts, feasible, chosen, nid, cap_free, rot>>
    /\ UNCHANGED <<cfgv, idx, brokerv, workv, errs, regv, auxv>>

\* a scheduler without the capacity-only fallback: no feasible host in the
\* slot snapshot is head-of-line blocking
ChooseNoFallback ==
    /\ pc = "choose"
    /\ LET c == _choose_host(feasible)
       IN IF c = None THEN LoopHeadKeep("sleep")
          ELSE /\ chosen' = c
               /\ pc' = IF path = "slot" THEN "rotate" ELSE "get"
               /\ rot' = 0
               /\ UNCHANGED <<path, task_raw, need, n, hosts, feasible, nid, cap_free, cf>>
    /\ items' = NoItems
    /\ UNCHANGED <<cfgv, idx, brokerv, workv, errs, regv, auxv>>

\* chosen = _choose_host(feasible) and the branch on it
Choose ==
    /\ pc = "choose"
    /\ LET c == _choose_host(feasible)
       IN CASE path = "noslot" ->
                 IF c = None THEN LoopHeadKeep("sleep")
                 ELSE /\ chosen' = c
                      /\ pc' = "get"
                      /\ UNCHANGED <<path, task_raw, need, n, hosts, feasible, nid, cap_free, rot, cf>>
            [] path = "slot" ->
                 /\ chosen' = c
                 /\ pc' = IF c = None THEN "keys" ELSE "rotate"
                 /\ path' = IF c = None THEN "fallback" ELSE "slot"
                 /\ rot' = 0
                 /\ UNCHANGED <<task_raw, need, n, hosts, feasible, nid, cap_free, cf>>
            [] OTHER ->
                 IF c = None THEN LoopHeadKeep("sleep")
                 ELSE /\ nid' = c
                      /\ pc' = "get"
                      /\ UNCHANGED <<path, task_raw, need, n, hosts, feasible, chosen, cap_free, rot, cf>>
    /\ items' = NoItems
    /\ UNCHANGED <<cfgv, idx, brokerv, workv, errs, regv, auxv>>

\* tail = r.rpoplpush(slots, slots), one iteration of the loop over range(max_scan)
Rotate ==
    /\ pc = "rotate"
    /\ IF slots = <<>>
       THEN /\ pc' = "lrem"
            /\ UNCHANGED <<slots, rot>>
       ELSE LET tail == slots[Len(slots)]
            IN /\ slots' = <<tail>> \o Front(slots)
               /\ rot' = rot + 1
               /\ pc' = IF tail = chosen THEN "rot_pop"
                        ELSE IF rot + 1 >= MaxScan(n) THEN "lrem" ELSE "rotate"
    /\ UNCHANGED <<path, task_raw, need, n, hosts, feasible, chosen, nid, cap_free, weighv>>
    /\ UNCHANGED <<cfgv, idx, pending, q, cap, cap_keys, cap_total, run_count, workv, errs, regv, auxv>>

\* r.lpop(slots): consume the token moved to the head
RotPop ==
    /\ pc = "rot_pop"
    /\ slots' = IF slots = <<>> THEN slots ELSE Tail(slots)
    /\ pc' = "get"
    /\ UNCHANGED localv
    /\ UNCHANGED <<cfgv, idx, pending, q, cap, cap_keys, cap_total, run_count, workv, errs, regv, auxv>>

\* a scheduler whose fall-through after a capacity-only dispatch removes a
\* token of the node it dispatched to
LremTarget ==
    /\ pc = "lrem"
    /\ slots' = RemoveFirst(slots, Target)
    /\ IF chosen = None THEN LoopHead("peek") ELSE pc' = "get" /\ UNCHANGED localv
    /\ UNCHANGED <<cfgv, idx, pending, q, cap, cap_keys, cap_total, run_count, workv, errs, regv, auxv>>

\* r.lrem(slots, 1, chosen); with chosen = None the client raises DataError,
\* which the loop's except clause logs before the next iteration
Lrem ==
    /\ pc = "lrem"
    /\ IF chosen = None
       THEN /\ LoopHead("peek")
            /\ UNCHANGED slots
       ELSE /\ slots' = RemoveFirst(slots, chosen)
            /\ pc' = "get"
            /\ UNCHANGED localv
    /\ UNCHANGED <<cfgv, idx, pending, q, cap, cap_keys, cap_total, run_count, workv, errs, regv, auxv>>

\* the branch taken once v has been read from cap:<node>: the no-slot and the
\* slot path re-check it, the fallback path does not
AfterGet(v) ==
    IF path # "fallback" /\ v < need
    THEN IF path = "slot"
         THEN /\ pc' = "giveback"
              /\ cap_free' = v
              /\ UNCHANGED <<path, task_raw, need, n, hosts, feasible, chosen, nid, rot, weighv>>
         ELSE LoopHead("sleep")
    ELSE /\ pc' = "set"
         /\ cap_free' = v
         /\ UNCHANGED <<path, task_raw, need, n, hosts, feasible, chosen, nid, rot, weighv>>

\* cap_free = read of cap:<node> before the reservation, and the re-check
GetCap ==
    /\ pc = "get"
    /\ AfterGet(_cap_free(Target))
    /\ UNCHANGED <<cfgv, idx, brokerv, workv, errs, regv, auxv>>

\* r.rpush(slots, chosen); time.sleep(0.05); continue
GiveBack ==
    /\ pc = "giveback"
    /\ slots' = Append(slots, chosen)
    /\ LoopHead("sleep")
    /\ UNCHANGED <<cfgv, idx, pending, q, cap, cap_keys, cap_total, run_count, workv, errs, regv, auxv>>

\* new_free = cap_free - need; r.set(cap_key, new_free)
SetCap ==
    /\ pc = "set"
    /\ cap' = [cap EXCEPT ![Target] = cap_free - need]
    /\ cap_keys' = cap_keys \cup {Target}
    /\ pc' = "lpop"
    /\ UNCHANGED localv
    /\ UNCHANGED <<cfgv, idx, pending, q, slots, cap_total, run_count, workv, errs, regv, auxv>>

\* r.lpop(pending)
LpopPending ==
    /\ pc = "lpop"
    /\ pending' = IF pending = <<>> THEN pending ELSE Tail(pending)
    /\ pc' = "incr"
    /\ UNCHANGED localv
    /\ UNCHANGED <<cfgv, idx, q, slots, cap, cap_keys, cap_total, run_count, workv, errs, regv, auxv>>

\* r.incr("run_count:<node>")
IncrRunCount ==
    /\ pc = "incr"
    /\ run_count' = [run_count EXCEPT ![Target] = @ + 1]
    /\ pc' = "rpush"
    /\ UNCHANGED localv
    /\ UNCHANGED <<cfgv, idx, pending, q, slots, cap, cap_keys, cap_total, workv, errs, regv, auxv>>

\* r.rpush(qnode, task_raw); the fallback branch has no continue and falls
\* through to the token-consuming code with chosen = None
RpushNode ==
    /\ pc = "rpush"
    /\ q' = [q EXCEPT ![Target] = Append(@, task_raw)]
    /\ IF path = "fallback"
       THEN /\ pc' = "rotate"
            /\ rot' = 0
            /\ UNCHANGED <<path, task_raw, need, n, hosts, feasible, chosen, nid, cap_free, weighv>>
       ELSE LoopHead("peek")
    /\ UNCHANGED <<cfgv, idx, pending, slots, cap, cap_keys, cap_total, run_count, workv, errs, regv, auxv>>

\* the loop body; GiveBack is listed with the specifications in which the
\* re-check of cap can fail
\* the metric reads of _choose_host, made only when --weigher is set
Weighing == Weigh \/ WeighTotal

Scheduler ==
    \/ Peek \/ Wake \/ Llen \/ Keys \/ Lrange \/ Scan \/ Choose \/ Rotate \/ RotPop
    \/ Lrem \/ GetCap \/ SetCap \/ LpopPending \/ IncrRunCount \/ RpushNode

\* ---- worker --------------------------------------------------------------
Busy(nd) == Cardinality({t \in Tasks : wnode[t] = nd /\ wstate[t] \notin {"-", "done", "killed"}})

\* a fetch loop that reads the head of q:<node> without removing it
FetchNoPop(nd) ==
    /\ regpc[nd] = "up"
    /\ q[nd] # <<>>
    /\ QueueRoom(nd)
    /\ q' = q
    /\ task_q' = [task_q EXCEPT ![nd] = Append(@, Head(q[nd]))]
    /\ UNCHANGED <<cfgv, idx, pending, slots, cap, cap_keys, cap_total, run_count, schedv>>
    /\ UNCHANGED <<wstate, wnode, outcome, threads, ret, errs, regv, auxv>>

\* fetch_loop: item = r.blpop(qname); task_q.put(t)
Fetch(nd) ==
    /\ regpc[nd] = "up"
    /\ q[nd] # <<>>
    /\ QueueRoom(nd)
    /\ q' = [q EXCEPT ![nd] = Tail(@)]
    /\ task_q' = [task_q EXCEPT ![nd] = Append(@, Head(q[nd]))]
    /\ UNCHANGED <<cfgv, idx, pending, slots, cap, cap_keys, cap_total, run_count, schedv>>
    /\ UNCHANGED <<wstate, wnode, outcome, threads, ret, errs, regv, auxv>>

\* worker_loop: t = task_q.get(); run_task starts
Take(nd) ==
    /\ regpc[nd] = "up"
    /\ task_q[nd] # <<>>
    /\ Busy(nd) < threads[nd]
    /\ LET t == Head(task_q[nd])
       IN /\ wstate' = [wstate EXCEPT ![t] = "run"]
          /\ wnode' = [wnode EXCEPT ![t] = nd]
    /\ task_q' = [task_q EXCEPT ![nd] = Tail(@)]
    /\ UNCHANGED <<cfgv, idx, brokerv, schedv, outcome, threads, ret, errs, regv, auxv>>

\* a worker that releases only after a successful run
ExitNoFinally(t, o) ==
    /\ wstate[t] = "run"
    /\ wrap[t] \notin {"child", "read"}
    /\ wstate' = [wstate EXCEPT ![t] = IF o = "ok" THEN "rel_cap" ELSE "done"]
    /\ outcome' = [outcome EXCEPT ![t] = IF o = "ok" THEN o ELSE "-"]
    /\ UNCHANGED <<cfgv, idx, brokerv, schedv, task_q, wnode, threads, ret, errs, regv, auxv>>

\* run_task returns rc = 0, returns rc # 0, or raises: the finally block starts.
\* subprocess.call returns once the wrapper, if it has been started, is over
Exit(t, o) ==
    /\ wstate[t] = "run"
    /\ wrap[t] \notin {"child", "read"}
    /\ wstate' = [wstate EXCEPT ![t] = "rel_cap"]
    /\ outcome' = [outcome EXCEPT ![t] = o]
    /\ UNCHANGED <<cfgv, idx, brokerv, schedv, task_q, wnode, threads, ret, errs, regv, auxv>>

\* r.incrby(cap_key, max(1, units))
ReleaseCap(t) ==
    /\ wstate[t] = "rel_cap"
    /\ cap' = [cap EXCEPT ![wnode[t]] = _cap_free(wnode[t]) + Max(1, units[t])]
    /\ cap_keys' = cap_keys \cup {wnode[t]}
    /\ ret' = [ret EXCEPT ![t][1] = @ + Max(1, units[t])]
    /\ wstate' = [wstate EXCEPT ![t] = IF parallel[wnode[t]] > 0 THEN "rel_slot" ELSE "rel_rc"]
    /\ UNCHANGED <<cfgv, idx, pending, q, slots, cap_total, run_count, schedv>>
    /\ UNCHANGED <<task_q, wnode, outcome, threads, errs, regv, auxv>>

\* if args.parallel > 0: r.rpush(slots_key, node)
ReleaseSlot(t) ==
    /\ wstate[t] = "rel_slot"
    /\ slots' = Append(slots, wnode[t])
    /\ ret' = [ret EXCEPT ![t][2] = @ + 1]
    /\ wstate' = [wstate EXCEPT ![t] = "rel_rc"]
    /\ UNCHANGED <<cfgv, idx, pending, q, cap, cap_keys, cap_total, run_count, schedv>>
    /\ UNCHANGED <<task_q, wnode, outcome, threads, errs, regv, auxv>>

\* v = r.decrby(run_count, 1); if v < 0: r.set(run_count, 0); task_done();
\* an exception of run_task leaves the finally block and ends the thread
ReleaseRunCount(t) ==
    /\ wstate[t] = "rel_rc"
    /\ run_count' = [run_count EXCEPT ![wnode[t]] = Max(0, @ - 1)]
    /\ ret' = [ret EXCEPT ![t][3] = @ + 1]
    /\ wstate' = [wstate EXCEPT ![t] = "done"]
    /\ threads' = [threads EXCEPT ![wnode[t]] = IF outcome[t] = "raise" THEN @ - 1 ELSE @]
    /\ outcome' = [outcome EXCEPT ![t] = "-"]
    /\ UNCHANGED <<cfgv, idx, pending, q, slots, cap, cap_keys, cap_total, schedv>>
    /\ UNCHANGED <<task_q, wnode, errs, regv, auxv>>

Worker ==
    \/ \E nd \in Nodes : Fetch(nd) \/ Take(nd)
    \/ \E t \in Tasks : \/ \E o \in {"ok", "fail", "raise"} : Exit(t, o)
                        \/ ReleaseCap(t) \/ ReleaseSlot(t) \/ ReleaseRunCount(t)

\* ---- adapter: ffmpeg_wrapper.py, started by run_task -----------------------
\* time passes
WallTick ==
    /\ wall < MaxWall
    /\ wall' = wall + 1
    /\ UNCHANGED <<cfgv, idx, brokerv, schedv, workv, errs, regv, sharev, dispv>>
    /\ UNCHANGED <<tick_ms, boot_frac, wrapv, normv, expv, morev>>

\* read_proc_start_epoch_ms: btime + start_ticks / clk_tck, in ms; the epoch of
\* the model is the btime of the worker's machine
read_proc_start_epoch_ms(t) == start_ticks[t] * tick_ms

\* p = subprocess.Popen(cmd): the kernel records the child's start in ticks
\* since boot
WrapSpawn(t) ==
    /\ wstate[t] = "run"
    /\ wrap[t] = "-"
    /\ wrap' = [wrap EXCEPT ![t] = "child"]
    /\ start_ticks' = [start_ticks EXCEPT ![t] = (wall - boot_frac) \div tick_ms]
    /\ UNCHANGED <<cfgv, idx, brokerv, schedv, workv, errs, regv, sharev, dispv>>
    /\ UNCHANGED <<clockv, w_ts_start, events, normv, expv, morev>>

\* ts_start = read_proc_start_epoch_ms(pid), now_ms() when /proc cannot be read
WrapReadStart(t) ==
    /\ wrap[t] = "child"
    /\ wrap' = [wrap EXCEPT ![t] = "read"]
    /\ \E v \in {read_proc_start_epoch_ms(t), wall} :
          w_ts_start' = [w_ts_start EXCEPT ![t] = v]
    /\ UNCHANGED <<cfgv, idx, brokerv, schedv, workv, errs, regv, sharev, dispv>>
    /\ UNCHANGED <<clockv, start_ticks, events, normv, expv, morev>>

\* rc = p.wait(); ts_end = now_ms(); ts_enqueue from TS_ENQUEUE, which the
\* worker sets when the task has the field, else ts_start; emit_event(rec)
WrapEmit(t) ==
    /\ wrap[t] = "read"
    /\ wrap' = [wrap EXCEPT ![t] = "emitted"]
    /\ LET ts_enq_env == IF ts_enqueue[t] # 0 THEN ts_enqueue[t] ELSE None
           rec == [task |-> t,
                   ts_enqueue |-> IF ts_enq_env # None THEN ts_enq_env ELSE w_ts_start[t],
                   ts_start |-> w_ts_start[t],
                   ts_end |-> wall]
       IN events' = Append(events, rec)
    /\ UNCHANGED <<cfgv, idx, brokerv, schedv, workv, errs, regv, sharev, dispv>>
    /\ UNCHANGED <<clockv, start_ticks, w_ts_start, normv, expv, morev>>

Wrapper == \E t \in Tasks : WrapSpawn(t) \/ WrapReadStart(t) \/ WrapEmit(t)

\* ---- parse_sys.py: per-pid samples normalised to CCTF proc_metrics --------
IsInt(v) == v # NotInt

\* one line of the raw file: {ts_ms, pid, utime + stime}, any field possibly
\* not an int
RawRecords == [ts : {NotInt} \cup 1..MaxTs, pid : {NotInt} \cup 1..MaxPid,
               cpu : {NotInt} \cup 0..MaxTicks]

RECURSIVE SeqsUpTo(_, _)
SeqsUpTo(S, k) ==
    IF k = 0 THEN {<<>>}
    ELSE LET shorter == SeqsUpTo(S, k - 1)
         IN shorter \cup {Append(x, e) : x \in {y \in shorter : Len(y) = k - 1}, e \in S}

\* the body of "for line in fin" for the next line
NormLine ==
    /\ raw # <<>>
    /\ raw' = Tail(raw)
    /\ LET o == Head(raw)
           ints == IsInt(o.cpu)
           prev == IF o.pid \in DOMAIN last THEN last[o.pid] ELSE <<NotInt, NotInt>>
           has_prev == o.pid \in DOMAIN last
           moved == has_prev /\ ints /\ o.ts # prev[2]
           dt_ticks == IF moved THEN Max(0, o.cpu - prev[1]) ELSE 0
           dt_ms == IF moved THEN Max(0, o.ts - prev[2]) ELSE 0
           cpu_ms == IF moved THEN (dt_ticks * 1000) \div Max(1, CLK_TCK) ELSE 0
           keep == \/ moved
                   \/ has_prev /\ ints /\ o.ts = prev[2] /\ o.cpu > prev[1]
                   \/ ~has_prev /\ ints
       IN IF ~IsInt(o.ts) \/ ~IsInt(o.pid)
          THEN UNCHANGED <<last, merged>>
          ELSE /\ last' = IF keep
                          THEN [p \in DOMAIN last \cup {o.pid} |->
                                   IF p = o.pid THEN <<o.cpu, o.ts>> ELSE last[p]]
                          ELSE last
               /\ merged' = Append(merged, [ts_ms |-> o.ts, pid |-> o.pid,
                                            dt_ms |-> dt_ms, cpu_ms |-> cpu_ms])
    /\ UNCHANGED <<cfgv, idx, brokerv, schedv, workv, errs, regv, sharev, dispv, clockv, wrapv, expv, morev>>

\* ---- export_opendc.py: the id column of the tasks table -------------------
\* the loop over all invocations of all nodes building pids / seen / conflicts
ExpScan ==
    /\ epc = "scan"
    /\ todo # <<>>
    /\ LET pid == Head(todo)
       IN IF pid \in Range(pids)
          THEN conflicts' = TRUE /\ pids' = pids
          ELSE pids' = Append(pids, pid) /\ UNCHANGED conflicts
    /\ todo' = Tail(todo)
    /\ epc' = IF Tail(todo) = <<>> THEN "map" ELSE "scan"
    /\ UNCHANGED <<cfgv, idx, brokerv, schedv, workv, errs, regv, sharev, dispv, clockv, wrapv, normv, morev>>
    /\ UNCHANGED <<invocations, task_id_mode, pid_to_task_id, task_ids>>

\* {pid: i + 1 for i, pid in enumerate(pids)}
Sequential == [p \in Range(pids) |-> CHOOSE i \in 1..Len(pids) : pids[i] = p]

\* {pid: pid for pid in pids}
ByPid == [p \in Range(pids) |-> p]

\* pid_to_task_id according to --task-id-mode
ExpMap ==
    /\ epc = "map" \/ (epc = "scan" /\ todo = <<>>)
    /\ pid_to_task_id' =
          IF task_id_mode = "pid" THEN ByPid
          ELSE IF task_id_mode = "sequential" THEN Sequential
          ELSE IF conflicts THEN Sequential ELSE ByPid
    /\ epc' = "tasks"
    /\ UNCHANGED <<cfgv, idx, brokerv, schedv, workv, errs, regv, sharev, dispv, clockv, wrapv, normv, morev>>
    /\ UNCHANGED <<invocations, task_id_mode, todo, pids, conflicts, task_ids>>

\* the ids generate_tasks gives the invocations of one node
RECURSIVE IdsOf(_)
IdsOf(s) == IF s = <<>> THEN <<>> ELSE <<pid_to_task_id[Head(s)]>> \o IdsOf(Tail(s))

\* generate_tasks: one row per invocation of every node, id = pid_to_task_id[pid]
ExpTasks ==
    /\ epc = "tasks"
    /\ task_ids' = IdsOf(invocations[1]) \o IdsOf(invocations[2])
    /\ epc' = "done"
    /\ UNCHANGED <<cfgv, idx, brokerv, schedv, workv, errs, regv, sharev, dispv, clockv, wrapv, normv, morev>>
    /\ UNCHANGED <<invocations, task_id_mode, todo, pids, conflicts, pid_to_task_id>>

Export == ExpScan \/ ExpMap \/ ExpTasks

\* ---- worker restart: main() of a new worker process of the node --------
\* the old process stops (its daemon threads die with it) and a new one is
\* started with --capacity-units u and, when rs, --reset-capacity
Restart(nd, u, rs) ==
    /\ restarts < MaxRestarts
    /\ regpc[nd] = "up"
    /\ restarts' = restarts + 1
    /\ regpc' = [regpc EXCEPT ![nd] = "purge"]
    /\ reset' = [reset EXCEPT ![nd] = rs]
    /\ cap_units' = [cap_units EXCEPT ![nd] = u]
    /\ task_q' = [task_q EXCEPT ![nd] = <<>>]
    /\ wstate' = [t \in Tasks |->
                    IF t \in Range(task_q[nd]) \/ (wnode[t] = nd /\ wstate[t] \notin {"-", "done"})
                    THEN "killed" ELSE wstate[t]]
    /\ wnode' = [t \in Tasks |-> IF t \in Range(task_q[nd]) THEN nd ELSE wnode[t]]
    /\ outcome' = [t \in Tasks |-> IF wnode[t] = nd THEN "-" ELSE outcome[t]]
    /\ threads' = [threads EXCEPT ![nd] = 0]
    /\ UNCHANGED <<cfgv, idx, brokerv, schedv, ret, errs, regleft, auxv>>

\* r.lrem(slots_key, 0, node)
RegPurge(nd) ==
    /\ regpc[nd] = "purge"
    /\ slots' = RemoveAll(slots, nd)
    /\ regpc' = [regpc EXCEPT ![nd] = IF parallel[nd] > 0 THEN "push" ELSE "cap"]
    /\ regleft' = [regleft EXCEPT ![nd] = parallel[nd]]
    /\ UNCHANGED <<cfgv, idx, pending, q, cap, cap_keys, cap_total, run_count, schedv, workv>>
    /\ UNCHANGED <<errs, reset, restarts, cap_units, auxv>>

\* for _ in range(args.parallel): r.rpush(slots_key, node)
RegPush(nd) ==
    /\ regpc[nd] = "push"
    /\ slots' = Append(slots, nd)
    /\ regleft' = [regleft EXCEPT ![nd] = @ - 1]
    /\ regpc' = [regpc EXCEPT ![nd] = IF regleft[nd] - 1 <= 0 THEN "cap" ELSE "push"]
    /\ UNCHANGED <<cfgv, idx, pending, q, cap, cap_keys, cap_total, run_count, schedv, workv>>
    /\ UNCHANGED <<errs, reset, restarts, cap_units, auxv>>

\* a registration that ignores --reset-capacity (always setnx)
RegCapValueSetnx(nd) == IF nd \notin cap_keys THEN cap_units[nd] ELSE cap[nd]

\* if args.reset_capacity: r.set(cap_key, cap_units) else: r.setnx(cap_key, cap_units)
RegCapValue(nd) == IF reset[nd] \/ nd \notin cap_keys THEN cap_units[nd] ELSE cap[nd]

RegCap(nd) ==
    /\ regpc[nd] = "cap"
    /\ cap' = [cap EXCEPT ![nd] = RegCapValue(nd)]
    /\ cap_keys' = cap_keys \cup {nd}
    /\ regpc' = [regpc EXCEPT ![nd] = "total"]
    /\ UNCHANGED <<cfgv, idx, pending, q, slots, cap_total, run_count, schedv, workv>>
    /\ UNCHANGED <<errs, regleft, reset, restarts, cap_units, auxv>>

\* r.set("cap_total:<node>", cap_units); then the threads are started
RegTotal(nd) ==
    /\ regpc[nd] = "total"
    /\ cap_total' = [cap_total EXCEPT ![nd] = cap_units[nd]]
    /\ regpc' = [regpc EXCEPT ![nd] = "up"]
    /\ threads' = [threads EXCEPT ![nd] = NumThreads(nd)]
    /\ UNCHANGED <<cfgv, idx, pending, q, slots, cap, cap_keys, run_count, schedv>>
    /\ UNCHANGED <<task_q, wstate, wnode, outcome, ret>>
    /\ UNCHANGED <<errs, regleft, reset, restarts, cap_units, auxv>>

Register ==
    \/ \E nd \in Nodes, u \in 1..MaxUnits, rs \in BOOLEAN : Restart(nd, u, rs)
    \/ \E nd \in Nodes : RegPurge(nd) \/ RegPush(nd) \/ RegCap(nd) \/ RegTotal(nd)

\* ---- transient broker errors in the scheduler ---------------------------
\* a command raises before it takes effect.  Reads wrapped in their own try
\* (keys, _cap_free, the re-check) yield the default; every other command
\* ends the iteration in the loop's except clause
RaisingPcs == {"peek", "llen", "lrange", "rotate", "rot_pop", "lrem", "giveback",
               "set", "lpop", "incr", "rpush"}

BrokerError ==
    /\ errs < MaxErrors
    /\ pc \in RaisingPcs \cup {"keys", "scan", "weigh", "weigh_total", "get"}
    /\ errs' = errs + 1
    /\ CASE pc = "keys" ->
              /\ hosts' = <<>>
              /\ feasible' = {}
              /\ pc' = "choose"
              /\ UNCHANGED <<path, task_raw, need, n, chosen, nid, cap_free, rot, weighv>>
         [] pc = "scan" ->
              /\ feasible' = IF 0 >= need THEN feasible \cup {Head(hosts)} ELSE feasible
              /\ hosts' = Tail(hosts)
              /\ pc' = IF Tail(hosts) = <<>> THEN AfterScan(feasible') ELSE "scan"
              /\ UNCHANGED <<path, task_raw, need, n, chosen, nid, cap_free, rot, weighv>>
         [] pc = "weigh" ->
              /\ IF weigher = "instances"
                 THEN Weighed(0) /\ UNCHANGED cf
                 ELSE cf' = 0 /\ pc' = "weigh_total" /\ UNCHANGED items
              /\ UNCHANGED <<path, task_raw, need, n, hosts, feasible, chosen, nid, cap_free, rot>>
         [] pc = "weigh_total" ->
              /\ Weighed(_metric_vcpu(cf, 0))
              /\ cf' = 0
              /\ UNCHANGED <<path, task_raw, need, n, hosts, feasible, chosen, nid, cap_free, rot>>
         [] pc = "get" -> AfterGet(0)
         [] OTHER -> LoopHead("peek")
    /\ UNCHANGED <<cfgv, idx, brokerv, workv, regv, auxv>>

\* ---- shared mode: max-min water-filling ---------------------------------
\* a share is the exact fraction <<p, d>> = p / d with d > 0
FracLeq(x, y) == x[1] * y[2] <= y[1] * x[2]
FracMin(x, y) == IF FracLeq(x, y) THEN x ELSE y

\* sorted(max(0.0, float(x)) for x in reqs), reqs = units_map.values()
RECURSIVE SortedReqs(_, _)
SortedReqs(m, D) ==
    IF D = {} THEN <<>>
    ELSE LET u == CHOOSE x \in D : \A y \in D : m[x] <= m[y]
         IN <<Max(0, m[u])>> \o SortedReqs(m, D \ {u})

\* a water-filling that does not divide the remaining capacity
RECURSIVE WaterfillNoDivide(_, _, _, _)
WaterfillNoDivide(a, C, k, prefix) ==
    IF k > Len(a) THEN <<a[Len(a)], 1>>
    ELSE LET lam == <<C - prefix, 1>>
         IN IF FracLeq(lam, <<a[k], 1>>)
            THEN (IF lam[1] <= 0 THEN <<0, 1>> ELSE lam)
            ELSE WaterfillNoDivide(a, C, k + 1, prefix + a[k])

\* a water-filling that forgets the requests already satisfied
RECURSIVE WaterfillNoPrefix(_, _, _, _)
WaterfillNoPrefix(a, C, k, prefix) ==
    IF k > Len(a) THEN <<a[Len(a)], 1>>
    ELSE LET remaining == Len(a) - (k - 1)
             lam == <<C, remaining>>
         IN IF FracLeq(lam, <<a[k], 1>>)
            THEN (IF lam[1] <= 0 THEN <<0, 1>> ELSE lam)
            ELSE WaterfillNoPrefix(a, C, k + 1, prefix + a[k])

\* the loop "for k in range(n)" from index k (1-based) with the prefix sum so far
RECURSIVE WaterfillFrom(_, _, _, _)
WaterfillFrom(a, C, k, prefix) ==
    IF k > Len(a) THEN <<a[Len(a)], 1>>
    ELSE LET remaining == Len(a) - (k - 1)
             lam == <<C - prefix, remaining>>
         IN IF FracLeq(lam, <<a[k], 1>>)
            THEN (IF lam[1] <= 0 THEN <<0, 1>> ELSE lam)
            ELSE WaterfillFrom(a, C, k + 1, prefix + a[k])

waterfill_lambda(m, C) ==
    LET a == SortedReqs(m, DOMAIN m)
    IN IF Len(a) <= 0 THEN <<0, 1>> ELSE WaterfillFrom(a, Max(0, C), 1, 0)

compute_shares_map(units_map, C) ==
    IF DOMAIN units_map = {} THEN NoUnits
    ELSE LET lam == waterfill_lambda(units_map, C)
         IN [u \in DOMAIN units_map |-> FracMin(<<Max(0, units_map[u]), 1>>, lam)]

\* int(round(x)) of x = 100 * p / d: Python rounds halves to the even integer
RoundPct(s) ==
    LET num == 100 * s[1]
        lo == num \div s[2]
        rem == num % s[2]
    IN IF 2 * rem < s[2] THEN lo
       ELSE IF 2 * rem > s[2] THEN lo + 1
       ELSE IF lo % 2 = 0 THEN lo ELSE lo + 1

\* quota_pct = max(1, int(round(share * 100.0)))
QuotaPct(s) == Max(1, RoundPct(s))

\* systemctl set-property u CPUQuota=..% for every u of U: it takes effect on
\* the scopes that exist and fails, unnoticed, on the others
SetProperty(sh, U) ==
    [x \in DOMAIN quota |-> IF x \in U THEN QuotaPct(sh[x]) ELSE quota[x]]

\* worker_loop, shared mode, under au_lock: a new unit is admitted, the
\* shares are recomputed over the active units and the new one and applied to
\* the others, and the new unit's quota is put in the task
Admit(u, r) ==
    /\ u \notin DOMAIN active_units
    /\ LET temp_units == [x \in (DOMAIN active_units) \cup {u} |->
                            IF x = u THEN r ELSE active_units[x]]
           sh == compute_shares_map(temp_units, total_cores)
       IN /\ shares' = sh
          /\ quota' = SetProperty(sh, DOMAIN sh \ {u})
          /\ cpu_quota' = [x \in DOMAIN cpu_quota \cup {u} |->
                              IF x = u THEN QuotaPct(sh[u]) ELSE cpu_quota[x]]
          /\ active_units' = temp_units
    /\ UNCHANGED <<cfgv, idx, brokerv, schedv, workv, errs, regv, total_cores, dispv, clockv, wrapv, normv, expv, morev>>

\* run_task -> ffmpeg_wrapper: systemd-run --scope --unit UNIT_NAME
\* -p CPUQuota=CPU_QUOTA%: the scope of an admitted task comes to exist, with
\* the quota the task carries
StartUnit(u) ==
    /\ u \in DOMAIN cpu_quota
    /\ u \notin DOMAIN quota
    /\ quota' = [x \in DOMAIN quota \cup {u} |-> IF x = u THEN cpu_quota[u] ELSE quota[x]]
    /\ UNCHANGED <<cfgv, idx, brokerv, schedv, workv, errs, regv>>
    /\ UNCHANGED <<total_cores, active_units, shares, cpu_quota, dispv, clockv, wrapv, normv, expv, morev>>

\* worker_loop's finally block, shared mode, under au_lock: the unit leaves
\* (run_task is over, and its scope with it) and the shares of the remaining
\* units are recomputed and applied
Complete(u) ==
    /\ u \in DOMAIN active_units
    /\ LET rest == [x \in (DOMAIN active_units) \ {u} |-> active_units[x]]
           sh == compute_shares_map(rest, total_cores)
           gone == [x \in DOMAIN quota \ {u} |-> quota[x]]
       IN /\ active_units' = rest
          /\ shares' = IF DOMAIN rest # {} THEN sh ELSE shares
          /\ quota' = [x \in DOMAIN gone |-> IF DOMAIN rest # {} THEN QuotaPct(sh[x]) ELSE gone[x]]
          /\ cpu_quota' = [x \in DOMAIN cpu_quota \ {u} |-> cpu_quota[x]]
    /\ UNCHANGED <<cfgv, idx, brokerv, schedv, workv, errs, regv, total_cores, dispv, clockv, wrapv, normv, expv, morev>>

\* ---- exclusive mode: cpuset of a task --------------------------------------
\* a cpuset string "lo-hi" (or "lo" when lo = hi) is the pair <<lo, hi>>
\* groups_1c = [[i] for i in range(total_cores)]
groups_1c == [k \in 1..total_cores |-> <<k - 1, k - 1>>]

\* groups_2c = [[i, i+1] for i in range(0, total_cores-1, 2)], [[0]] below 2 cores
groups_2c ==
    IF total_cores >= 2
    THEN [k \in 1..(total_cores \div 2) |-> <<2 * (k - 1), 2 * (k - 1) + 1>>]
    ELSE << <<0, 0>> >>

\* groups_4c = [list(range(i, min(total_cores, i+4))) for i in range(0, total_cores, 4)],
\* [list(range(0, min(total_cores, 4)))] below 4 cores
groups_4c ==
    IF total_cores >= 4
    THEN [k \in 1..((total_cores + 3) \div 4) |->
              <<4 * (k - 1), Min(total_cores, 4 * (k - 1) + 4) - 1>>]
    ELSE << <<0, Min(total_cores, 4) - 1>> >>

\* grp = groups[slot_idx % len(groups)]
Rotated(groups, slot_idx) == groups[(slot_idx % Len(groups)) + 1]

\* next_cpuset_for of a task without an explicit cpuset; total_cores is
\* psutil.cpu_count() or 1, so the branch total_cores <= 0 is never taken
next_cpuset_for(cpu_units, slot_idx) ==
    LET u == Max(1, cpu_units)
    IN IF u >= total_cores THEN <<0, Max(0, total_cores - 1)>>
       ELSE IF u = 1 THEN Rotated(groups_1c, slot_idx)
       ELSE IF u = 2 THEN Rotated(groups_2c, slot_idx)
       ELSE IF u = 4 THEN Rotated(groups_4c, slot_idx)
       ELSE <<0, Min(total_cores, u) - 1>>

\* the cpusets a task may carry in its payload; <<>> is a task without one
NoCpuset == <<>>
GivenCpusets == {<<0, 0>>}

\* worker_loop(slot_idx), exclusive mode: the executor takes a task of
\* cpu_units u and injects the cpuset unless the task carries one (g)
PinTask(i, u, g) ==
    /\ ~pinned[i].busy
    /\ pinned' = [pinned EXCEPT ![i] =
          IF g = NoCpuset
          THEN LET cs == next_cpuset_for(u, i)
               IN [busy |-> TRUE, units |-> u, given |-> FALSE, lo |-> cs[1], hi |-> cs[2]]
          ELSE [busy |-> TRUE, units |-> u, given |-> TRUE, lo |-> g[1], hi |-> g[2]]]
    /\ UNCHANGED <<cfgv, idx, brokerv, schedv, workv, errs, regv, sharev, dispv, clockv, wrapv, normv, expv, fragv, dripv>>

\* run_task returns: the executor is free again
Unpin(i) ==
    /\ pinned[i].busy
    /\ pinned' = [pinned EXCEPT ![i] = NoPin]
    /\ UNCHANGED <<cfgv, idx, brokerv, schedv, workv, errs, regv, sharev, dispv, clockv, wrapv, normv, expv, fragv, dripv>>

Pinning ==
    \E i \in SlotIdx :
        \/ Unpin(i)
        \/ \E u \in 1..MaxPinUnits, g \in {NoCpuset} \cup GivenCpusets : PinTask(i, u, g)

\* ---- export_opendc.py: the fragments of one task ----------------------------
FracMax(x, y) == IF FracLeq(x, y) THEN y ELSE x

\* essential_min_mhz = 0.1
essential_min_mhz == <<1, 10>>

\* sorted(key = ts_ms): stable insertion of e into the sorted sequence s
RECURSIVE InsertByTs(_, _)
InsertByTs(s, e) ==
    IF s = <<>> THEN <<e>>
    ELSE IF s[Len(s)].ts_ms <= e.ts_ms THEN Append(s, e)
    ELSE Append(InsertByTs(Front(s), e), s[Len(s)])

RECURSIVE SortByTs(_)
SortByTs(s) == IF s = <<>> THEN <<>> ELSE InsertByTs(SortByTs(Front(s)), s[Len(s)])

\* int(s.get('ts_ms') or task_start): a missing or zero ts_ms counts as task_start
TsOr(sm) == IF sm.ts_ms = 0 THEN task_start ELSE sm.ts_ms

\* max(min(cpu_ms / dt, cpu_cores) * freq, essential_min_mhz), in MHz
MhzDemand(cpu_ms, dt) ==
    LET cores == FracMin(<<Max(0, cpu_ms), dt>>, <<cpu_cores, 1>>)
    IN FracMax(<<cores[1] * FreqMhz, cores[2]>>, essential_min_mhz)

\* 50% of the task row's cpu_capacity, here the node frequency
HalfCapacity == <<FreqMhz, 2>>

\* a first interval that is not clipped to the task window
NoClip(ts0, win_start) == win_start

\* clip_start = max(task_start, win_start)
ClipStart(ts0, win_start) == Max(ts0, win_start)

\* cpu_by_pid (samples with dt_ms > 0), the window filter, the sort; a task
\* with no sample in its window gets one synthetic fragment
FragGroup ==
    /\ gpc = "group"
    /\ LET cpu_samples == SelectSeq(proc_metrics, LAMBDA sm : sm.dt_ms > 0)
           in_window == SelectSeq(cpu_samples,
                                  LAMBDA sm : task_start <= TsOr(sm) /\ TsOr(sm) <= task_end)
       IN IF cpu_samples = <<>>
          THEN gpc' = "missing" /\ UNCHANGED <<task_cpu_samples, fragments>>
          ELSE IF in_window = <<>>
          THEN /\ fragments' = <<[duration |-> task_end - task_start, cpu_usage |-> HalfCapacity]>>
               /\ gpc' = "missing"
               /\ UNCHANGED task_cpu_samples
          ELSE /\ task_cpu_samples' = SortByTs(in_window)
               /\ gpc' = "head"
               /\ UNCHANGED fragments
    /\ UNCHANGED <<task_start, task_end, proc_metrics, cpu_cores, gi, head_duration>>
    /\ UNCHANGED <<cfgv, idx, brokerv, schedv, workv, errs, regv, sharev, dispv, clockv, wrapv, normv, expv, pinv, dripv>>

\* the head fragment over [task_start, first_ts - dt0)
FragHead ==
    /\ gpc = "head"
    /\ LET first_sample == task_cpu_samples[1]
           dt0 == first_sample.dt_ms
           first_win_start == first_sample.ts_ms - dt0
           hd == IF dt0 > 0 THEN Max(0, first_win_start - task_start) ELSE 0
       IN /\ head_duration' = hd
          /\ fragments' = IF hd > 0
                           THEN Append(fragments, [duration |-> hd,
                                                   cpu_usage |-> MhzDemand(first_sample.cpu_ms, dt0)])
                           ELSE fragments
    /\ gpc' = "loop"
    /\ gi' = 1
    /\ UNCHANGED <<task_start, task_end, proc_metrics, cpu_cores, task_cpu_samples>>
    /\ UNCHANGED <<cfgv, idx, brokerv, schedv, workv, errs, regv, sharev, dispv, clockv, wrapv, normv, expv, pinv, dripv>>

\* one iteration of "for i, sample in enumerate(task_cpu_samples)"
FragSample ==
    /\ gpc = "loop"
    /\ LET sample == task_cpu_samples[gi]
           dt == IF sample.dt_ms > 0 THEN sample.dt_ms
                 ELSE IF gi = 1 THEN 0
                 ELSE sample.ts_ms - task_cpu_samples[gi - 1].ts_ms
           win_start == sample.ts_ms - dt
           duration == sample.ts_ms - ClipStart(task_start, win_start)
       IN fragments' = IF dt <= 0 \/ duration <= 0 THEN fragments
                       ELSE Append(fragments, [duration |-> duration,
                                               cpu_usage |-> MhzDemand(sample.cpu_ms, dt)])
    /\ gi' = gi + 1
    /\ gpc' = IF gi >= Len(task_cpu_samples) THEN "missing" ELSE "loop"
    /\ UNCHANGED <<task_start, task_end, proc_metrics, cpu_cores, task_cpu_samples, head_duration>>
    /\ UNCHANGED <<cfgv, idx, brokerv, schedv, workv, errs, regv, sharev, dispv, clockv, wrapv, normv, expv, pinv, dripv>>

\* "Ensure all tasks have at least one fragment": a task still without one
\* gets a fragment over its duration
FragMissing ==
    /\ gpc = "missing"
    /\ fragments' = IF fragments = <<>>
                     THEN <<[duration |-> task_end - task_start, cpu_usage |-> HalfCapacity]>>
                     ELSE fragments
    /\ gpc' = "done"
    /\ UNCHANGED <<task_start, task_end, proc_metrics, cpu_cores, task_cpu_samples, gi, head_duration>>
    /\ UNCHANGED <<cfgv, idx, brokerv, schedv, workv, errs, regv, sharev, dispv, clockv, wrapv, normv, expv, pinv, dripv>>

Fragments == FragGroup \/ FragHead \/ FragSample \/ FragMissing

\* ---- specifications ------------------------------------------------------
Next == Enqueue \/ Scheduler \/ Weighing \/ Worker

\* one dispatcher, one scheduler, workers registered once, no broker error
Spec == Init /\ [][Next]_vars

\* the scheduler's loop never stops: each iteration ends in a step
FairSpec == Spec /\ WF_vars(Scheduler \/ Weighing)

\* the default scheduler command line, without and with slots
InitDefault == SchedInit(Plans(PlanTasks), {<<0, 0>>, <<1, 2>>}, {<<"", "min">>}) /\ AuxIdle

NextRestart == Enqueue \/ Scheduler \/ Worker \/ GiveBack \/ Register

\* workers restarting
SpecRestart == InitDefault /\ [][NextRestart]_vars

NextFault == Enqueue \/ Scheduler \/ Worker \/ GiveBack \/ BrokerError

\* broker commands of the scheduler failing
SpecFault == InitDefault /\ [][NextFault]_vars

NextShares == \E u \in UnitNames : Complete(u) \/ StartUnit(u) \/ \E r \in 1..MaxReq : Admit(u, r)

\* the fair-share controller alone, for every capacity C = total_cores
InitShares ==
    /\ SchedInit({Plan(<<1, 1>>)}, {<<0, 0>>}, {<<"", "min">>})
    /\ total_cores \in 0..MaxCores
    /\ active_units = NoUnits
    /\ shares = NoUnits
    /\ quota = NoUnits
    /\ cpu_quota = NoUnits
    /\ DispDefault
    /\ WrapIdle
    /\ NormIdle
    /\ ExportIdle
    /\ MoreIdle

SpecShares == InitShares /\ [][NextShares]_vars

\* the dispatcher in both pending modes against the scheduler and the workers
InitDispatch ==
    /\ SchedInit(Plans(PlanTasks), {<<0, 0>>, <<1, 2>>}, {<<"", "min">>})
    /\ ShareIdle
    /\ WrapIdle
    /\ NormIdle
    /\ ExportIdle
    /\ MoreIdle
    /\ DispInit({"pulse", "fifo"}, {0, 1, PulseSize}, 1..MaxBatch, {1, PendingMax})

\* one synchronised wall clock for the dispatcher and the worker's machine
InitSpan ==
    /\ SchedInit({Plan(<<2, 1>>)}, {<<0, 0>>, <<1, 2>>}, {<<"", "min">>})
    /\ ShareIdle
    /\ DispDefault
    /\ NormIdle
    /\ ExportIdle
    /\ MoreIdle
    /\ wall = 1
    /\ tick_ms \in 1..MaxTickMs
    /\ boot_frac \in 0..MaxBootFrac
    /\ wrap = [t \in Tasks |-> "-"]
    /\ start_ticks = [t \in Tasks |-> 0]
    /\ w_ts_start = [t \in Tasks |-> 0]
    /\ events = <<>>

NextSpan == WallTick \/ EnqueueAt({wall}) \/ Scheduler \/ Worker \/ Wrapper

\* the spans of the tasks submitted through pending
SpecSpan == InitSpan /\ [][NextSpan]_vars

\* the normalizer over every raw file of up to MaxRaw lines
InitNorm ==
    /\ SchedInit({Plan(<<1, 1>>)}, {<<0, 0>>}, {<<"", "min">>})
    /\ ShareIdle /\ DispDefault /\ WrapIdle /\ ExportIdle /\ MoreIdle
    /\ raw \in SeqsUpTo(RawRecords, MaxRaw)
    /\ last = [p \in {} |-> <<0, 0>>]
    /\ merged = <<>>

SpecNorm == InitNorm /\ [][NormLine]_vars

\* the exporter over the logs of two nodes, up to MaxInv invocations each
InitExport ==
    /\ SchedInit({Plan(<<1, 1>>)}, {<<0, 0>>}, {<<"", "min">>})
    /\ ShareIdle /\ DispDefault /\ WrapIdle /\ NormIdle /\ MoreIdle
    /\ ExportInit([Nodes -> SeqsUpTo(1..MaxPid, MaxInv)], {"auto", "pid", "sequential"})

SpecExport == InitExport /\ [][Export]_vars

NextDispatch == Dispatcher \/ Scheduler \/ Worker

SpecDispatch == InitDispatch /\ [][NextDispatch]_vars

\* ---- properties -----------------------------------------------------------
\* t has been pushed to a per-node queue
Dispatched(t) ==
    \/ \E nd \in Nodes : t \in Range(q[nd]) \/ t \in Range(task_q[nd])
    \/ wstate[t] # "-"

\* C1: tasks are moved to the per-node queues in the order they were appended
\* to pending (task a is appended before task b exactly when a < b): whenever
\* b has been dispatched, every a appended before it has been dispatched
C1_FifoDispatch == \A a, b \in Tasks : (a < b /\ Dispatched(b)) => Dispatched(a)

C1_Witness == Dispatched(2) /\ wstate[1] = "done" /\ wnode[1] # None

\* the scheduler has reserved capacity on nd for the task in its hand
Reserving(nd, t) == pc \in {"lpop", "incr", "rpush"} /\ Target = nd /\ task_raw = t

\* t holds capacity of nd: reserved, queued, fetched or running, not yet returned
Holds(nd, t) ==
    \/ Reserving(nd, t)
    \/ t \in Range(q[nd]) \/ t \in Range(task_q[nd])
    \/ (wnode[t] = nd /\ wstate[t] \in {"run", "rel_cap"})

InFlight(nd) == SumOver({t \in Tasks : Holds(nd, t)}, units)

\* C2: capacity is conserved: cap(n) plus the cpu_units of the tasks dispatched
\* to n whose capacity has not been returned equals the initial cap(n)
C2_CapacityConserved == \A nd \in Nodes : cap[nd] + InFlight(nd) = CapUnits(nd)

\* C3: 0 <= cap(n) <= cap_total(n) for every node that is registered (no
\* registration of it in progress) with its capacity as first registered
C3_CapWithinTotal ==
    \A nd \in Nodes :
        (regpc[nd] = "up" /\ cap_total[nd] = CapUnits(nd))
            => (0 <= cap[nd] /\ cap[nd] <= cap_total[nd])

Taken(t) == (\E nd \in Nodes : t \in Range(task_q[nd])) \/ wstate[t] # "-"
InOneQueue(t) == Cardinality({nd \in Nodes : t \in Range(q[nd])}) = 1
                 /\ \A nd \in Nodes : Count(q[nd], t) <= 1

\* C4: at the head of the scheduler's loop, every task appended to pending is
\* still in pending, or in exactly one per-node queue, or taken by a worker
C4_NoTaskLost ==
    pc \in {"peek", "sleep"} =>
        \A t \in 1..idx : t \in Range(pending) \/ InOneQueue(t) \/ Taken(t)

\* the head of pending is t, slots holds tokens but none of a node with room
\* for t, and some registered node has room for t
StaleHead(t) ==
    /\ pending # <<>>
    /\ Head(pending) = t
    /\ slots # <<>>
    /\ \A nd \in Range(slots) : _cap_free(nd) < units[t]
    /\ \E m \in cap_keys : _cap_free(m) >= units[t]

C6_NeverOversized ==
    \A nd \in Nodes, t \in Tasks :
        (t \in Range(q[nd]) \/ Reserving(nd, t)) => units[t] <= cap_total[nd]

C6_Witness ==
    \E t \in Tasks : units[t] > cap_total[1] /\ t \in Range(q[2]) /\ path = "fallback"

\* C7: a scheduler iteration that observes pending empty leaves every cap,
\* run_count, per-node queue and the slots list as they were
C7_EmptyPendingNoChange ==
    [][(pc = "peek" /\ pending = <<>> /\ pc' # pc)
          => UNCHANGED <<cap, cap_keys, cap_total, run_count, q, slots>>]_vars

C7_Witness ==
    /\ pc = "sleep"
    /\ pending = <<>>
    /\ slots # <<>>
    /\ \E nd \in Nodes : cap[nd] < cap_total[nd]

FullRelease(t) ==
    <<units[t], IF parallel[wnode[t]] > 0 THEN 1 ELSE 0, 1>>

\* C9: whatever the child's exit, a taken task is released exactly once:
\* nothing before it ends, never more than its cpu_units, one token and one
\* decrement, and all of it once the executor is done with it
C9_ReleasedOnce ==
    \A t \in Tasks :
        /\ wstate[t] \in {"-", "run"} => ret[t] = <<0, 0, 0>>
        /\ wstate[t] # "-" => \A i \in 1..3 : ret[t][i] <= FullRelease(t)[i]
        /\ wstate[t] = "done" => ret[t] = FullRelease(t)

C9_Witness ==
    \E t \in Tasks :
        /\ wstate[t] = "done"
        /\ parallel[wnode[t]] > 0
        /\ threads[wnode[t]] < NumThreads(wnode[t])

FracAdd(x, y) == <<x[1] * y[2] + y[1] * x[2], x[2] * y[2]>>

RECURSIVE FracSum(_, _)
FracSum(f, D) == IF D = {} THEN <<0, 1>>
                 ELSE LET u == CHOOSE x \in D : TRUE
                      IN FracAdd(f[u], FracSum(f, D \ {u}))

\* C10: the shares of the last recompute over the active units satisfy
\* s_i <= r_i for every unit and sum(s_i) <= C
C10_SharesBounded ==
    DOMAIN active_units # {} =>
        /\ DOMAIN shares = DOMAIN active_units
        /\ \A u \in DOMAIN shares : FracLeq(shares[u], <<active_units[u], 1>>)
        /\ FracLeq(FracSum(shares, DOMAIN shares), <<total_cores, 1>>)

C10_Witness ==
    /\ Cardinality(DOMAIN active_units) >= 2
    /\ DOMAIN shares = DOMAIN active_units
    /\ \E u \in DOMAIN shares : ~FracLeq(<<active_units[u], 1>>, shares[u])
    /\ \E u \in DOMAIN shares : shares[u] = <<active_units[u], 1>>

FracEq(x, y) == x[1] * y[2] = y[1] * x[2]

\* the largest share of the last recompute
TopShare == CHOOSE x \in {shares[u] : u \in DOMAIN shares} : \A y \in {shares[u] : u \in DOMAIN shares} : FracLeq(y, x)

\* C11: the water-filling is max-min fair and work-conserving: every share
\* is min(r_i, lambda) for one common level lambda (the largest share), and
\* the shares add up to min(C, sum(r_i))
C11_WaterfillExact ==
    DOMAIN active_units # {} =>
        /\ DOMAIN shares = DOMAIN active_units
        /\ \A u \in DOMAIN shares :
              FracEq(shares[u], FracMin(<<active_units[u], 1>>, TopShare))
        /\ FracEq(FracSum(shares, DOMAIN shares),
                  <<Min(total_cores, SumOver(DOMAIN active_units, active_units)), 1>>)

\* requests {1, 3, 4} with C = 2 give 2/3 each
C11_Witness ==
    /\ total_cores = 2
    /\ {active_units[u] : u \in DOMAIN active_units} = {1, 3, 4}
    /\ Cardinality(DOMAIN active_units) = 3
    /\ DOMAIN shares = DOMAIN active_units
    /\ \A u \in DOMAIN shares : FracEq(shares[u], <<2, 3>>)

\* C12: the ts_enqueue values of one dispatcher run strictly increase in the
\* order of the appends to pending (each at least the previous + 1), whatever
\* the wall clock returns; every task in a queue is stamped, and a stamp once
\* written is never rewritten
C12_StampsIncrease ==
    /\ [](\A a, b \in 1..idx : a < b => ts_enqueue[b] >= ts_enqueue[a] + 1)
    /\ [](\A t \in 1..idx : ts_enqueue[t] >= 1)
    /\ [][\A t \in Tasks : ts_enqueue[t] # 0 => ts_enqueue'[t] = ts_enqueue[t]]_vars

\* the clock did not advance between two pushes, and the second task went
\* through the scheduler and a worker
C12_Witness ==
    /\ ts_enqueue[1] = MaxClock
    /\ ts_enqueue[2] = MaxClock + 1
    /\ wstate[2] = "done"

\* C13: in fifo mode the length of pending never exceeds pending_max
C13_PendingBounded == pending_mode = "fifo" => Len(pending) <= pending_max

\* the guard stopped a batch, and the dispatcher went on after a pop
C13_Witness ==
    /\ pending_mode = "fifo"
    /\ batch_size > pending_max
    /\ idx = PlanLen
    /\ Len(pending) = pending_max

\* C14: every span record appended by the adapter has
\* ts_enqueue <= ts_start <= ts_end
C14_SpanOrdered ==
    \A i \in 1..Len(events) :
        /\ events[i].ts_enqueue <= events[i].ts_start
        /\ events[i].ts_start <= events[i].ts_end

\* the records of pid p in the normalised file, in file order
RECURSIVE OfPid(_, _)
OfPid(s, p) ==
    IF s = <<>> THEN <<>>
    ELSE (IF Head(s).pid = p THEN <<Head(s)>> ELSE <<>>) \o OfPid(Tail(s), p)

\* C15: in the normalised proc_metrics, for every pid ts_ms strictly
\* increases over successive records, every dt_ms >= 0, and the first record
\* of the pid has dt_ms = cpu_ms = 0
C15_NormalisedMonotone ==
    \A p \in 1..MaxPid :
        LET r == OfPid(merged, p)
        IN /\ \A i \in 1..Len(r) - 1 : r[i].ts_ms < r[i + 1].ts_ms
           /\ \A i \in 1..Len(r) : r[i].dt_ms >= 0
           /\ Len(r) >= 1 => (r[1].dt_ms = 0 /\ r[1].cpu_ms = 0)

\* C16: the id column of the exported tasks table is unique; in auto mode it
\* is the pid when all pids are distinct across the nodes, and otherwise the
\* ids are 1..N, one per invocation
C16_TaskIdsUnique ==
    (epc = "done" /\ task_id_mode = "auto") =>
        LET all == invocations[1] \o invocations[2]
            N == Len(all)
        IN /\ Len(task_ids) = N
           /\ \A i, j \in 1..N : i # j => task_ids[i] # task_ids[j]
           /\ IF \A i, j \in 1..N : i # j => all[i] # all[j]
              THEN task_ids = all
              ELSE Range(task_ids) = 1..N

\* C17: with tasks of cpu_units = 1, the run_count of a node of cap_total = 1
\* only takes the values 0 and 1, under every interleaving of the dispatch
\* steps with the completion steps
C17_RunCountZeroOne ==
    (\A t \in Tasks : units[t] <= 1) =>
        \A nd \in Nodes : cap_total[nd] = 1 => run_count[nd] \in {0, 1}

\* the step in which _choose_host returns a host
Chooses == pc = "choose" /\ pc' \in {"get", "rotate"}

C19_TiesBySmallestId ==
    [][(Chooses /\ weigher # "") =>
          LET c == IF path' = "fallback" THEN nid' ELSE chosen'
          IN \A g \in feasible : Metric(g) = Metric(c) => c <= g]_vars

\* C20: a node whose worker registered with parallel = p > 0 never has more
\* than p of its tokens in slots
C20_TokensWithinParallel ==
    \A nd \in Nodes : parallel[nd] > 0 => Count(slots, nd) <= parallel[nd]

\* a step of the scheduler (every step of its loop changes a local)
SchedulerStep == schedv' # schedv

\* C21: in an iteration that dispatches through the capacity-only fallback,
\* no step of the scheduler changes the number of tokens of any node in
\* slots; the only change to pending is the pop of the peeked head, the only
\* change to the per-node queues is the push of that task to q(nid), and cap
\* and run_count change for nid only (cap by the reservation, run_count by 1)
C21_FallbackFrame ==
    [][(path = "fallback" /\ SchedulerStep) =>
          /\ \A nd \in Nodes : Count(slots', nd) = Count(slots, nd)
          /\ IF pc = "lpop"
             THEN pending # <<>> /\ Head(pending) = task_raw /\ pending' = Tail(pending)
             ELSE pending' = pending
          /\ IF pc = "rpush"
             THEN q' = [q EXCEPT ![nid] = Append(@, task_raw)]
             ELSE q' = q
          /\ \A nd \in Nodes \ {nid} : cap'[nd] = cap[nd] /\ run_count'[nd] = run_count[nd]
          /\ pc = "set" => cap'[nid] = cap_free - need
          /\ pc # "set" => cap' = cap
          /\ pc = "incr" => run_count'[nid] = run_count[nid] + 1
          /\ pc # "incr" => run_count' = run_count]_vars

\* a capacity-only dispatch is over: the task is in q(nid), the fall-through
\* has rotated the tokens and reached the lrem
C21_Witness ==
    /\ path = "fallback"
    /\ pc = "lrem"
    /\ rot >= 1
    /\ nid # None
    /\ task_raw \in Range(q[nid])
    /\ slots # <<>>

\* C22: on the slot path, the step that consumes the token (the lpop after
\* the rotation, or the lrem) removes exactly one token of the chosen node
\* and no token of another node, and a rotation step changes no node's
\* number of tokens, whatever the workers push or purge in between
C22_OneTokenConsumed ==
    [][(path = "slot" /\ SchedulerStep /\ pc \in {"rotate", "rot_pop", "lrem"}) =>
          \A nd \in Nodes :
              Count(slots', nd) =
                  IF pc # "rotate" /\ nd = chosen THEN Count(slots, nd) - 1
                  ELSE Count(slots, nd)]_vars

\* C23: when every admitted unit has been started, the quota in force of
\* every active unit is max(1, round(100 * s_i)) with s_i its share over the
\* units admitted and not yet completed
C23_QuotasCurrent ==
    DOMAIN quota = DOMAIN active_units =>
        \A u \in DOMAIN active_units :
            quota[u] = QuotaPct(compute_shares_map(active_units, total_cores)[u])

\* the executors of one worker in exclusive mode, for every core count
InitPin ==
    /\ SchedInit({Plan(<<1, 1>>)}, {<<0, 0>>}, {<<"", "min">>})
    /\ total_cores \in 1..MaxCpus
    /\ active_units = NoUnits
    /\ shares = NoUnits
    /\ quota = NoUnits
    /\ cpu_quota = NoUnits
    /\ DispDefault /\ WrapIdle /\ NormIdle /\ ExportIdle
    /\ PinIdle
    /\ FragIdle
    /\ DripIdle

SpecPin == InitPin /\ [][Pinning]_vars

\* C24: the cpuset next_cpuset_for assigns to a task without an explicit
\* cpuset is a range of cores inside 0..total_cores-1 with exactly
\* min(cpu_units, total_cores) cores
C24_CpusetSize ==
    \A i \in SlotIdx :
        (pinned[i].busy /\ ~pinned[i].given) =>
            /\ 0 <= pinned[i].lo
            /\ pinned[i].hi <= total_cores - 1
            /\ pinned[i].hi - pinned[i].lo + 1 = Min(pinned[i].units, total_cores)

\* the executors that run a task whose cpuset the worker assigned
Assigned == {i \in SlotIdx : pinned[i].busy /\ ~pinned[i].given}

\* C29: the cpusets the worker assigned to the tasks running at the same
\* time on different executors are pairwise disjoint, already when the
\* cpu_units of the running tasks add up to no more than the cores
C29_CpusetsDisjoint ==
    SumOver(Assigned, [i \in SlotIdx |-> pinned[i].units]) <= total_cores =>
        \A i, j \in Assigned :
            i # j => (pinned[i].hi < pinned[j].lo \/ pinned[j].hi < pinned[i].lo)

\* one normalised sample of the pid: ts_ms (0: missing), dt_ms, cpu_ms
Samples == [ts_ms : 0..MaxFragTs, dt_ms : 0..MaxFragDt, cpu_ms : 0..MaxCpuMs]

\* the exporter's fragment stage over every window and every samples file
InitFrag ==
    /\ SchedInit({Plan(<<1, 1>>)}, {<<0, 0>>}, {<<"", "min">>})
    /\ ShareIdle /\ DispDefault /\ WrapIdle /\ NormIdle /\ ExportIdle /\ PinIdle /\ DripIdle
    /\ FragInit({w \in (1..2) \X (1..MaxFragTs) : w[1] <= w[2]},
                SeqsUpTo(Samples, MaxSamples), 1..MaxNodeCores)

SpecFrag == InitFrag /\ [][Fragments]_vars

\* the duration of the first fragment made from a sample interval
FirstReal == fragments[IF head_duration > 0 THEN 2 ELSE 1].duration

\* C25: for a task whose first in-window sample (dt_ms > 0) has
\* first_ts > ts_start, the head fragment's duration (0 if none) plus the
\* first real fragment's duration is first_ts - ts_start; when
\* first_ts - first_dt > ts_start the head lasts first_ts - first_dt - ts_start
\* and the first real fragment lasts first_dt
C25_HeadNoGapNoOverlap ==
    (gpc = "done" /\ task_cpu_samples # <<>> /\ task_cpu_samples[1].ts_ms > task_start) =>
        LET first_ts == task_cpu_samples[1].ts_ms
            first_dt == task_cpu_samples[1].dt_ms
        IN /\ Len(fragments) >= (IF head_duration > 0 THEN 2 ELSE 1)
           /\ head_duration > 0 => fragments[1].duration = head_duration
           /\ head_duration + FirstReal = first_ts - task_start
           /\ first_ts - first_dt > task_start =>
                 /\ head_duration = first_ts - first_dt - task_start
                 /\ FirstReal = first_dt

\* the scenario ts_start = 1, first sample at 4 with dt 2: head 1, then 2;
\* and a first interval that starts before the task, clipped
C25_Witness ==
    /\ gpc = "done"
    /\ task_start = 1
    /\ Len(task_cpu_samples) = 2
    /\ task_cpu_samples[1].ts_ms = 4
    /\ task_cpu_samples[1].dt_ms = 2
    /\ head_duration = 1
    /\ Len(fragments) = 3
    /\ fragments[2].duration = 2

\* the number of places task t is in: pending, the scheduler's hand between
\* the pop and the push, a per-node queue, a worker's in-process queue, or an
\* executor (running or finished)
Places(t) ==
    Count(pending, t)
    + (IF pc \in {"incr", "rpush"} /\ task_raw = t THEN 1 ELSE 0)
    + SumOver(Nodes, [nd \in Nodes |-> Count(q[nd], t) + Count(task_q[nd], t)])
    + (IF wstate[t] # "-" THEN 1 ELSE 0)

\* C26: with one scheduler and no failure, every task appended to pending is
\* at every moment in exactly one place (never duplicated, never dropped),
\* the task the scheduler pops is the one it peeked and pushes, and an
\* executor starts a task only if no executor has started it before
C26_ExactlyOnce ==
    /\ [](\A t \in Tasks : Places(t) = IF t <= idx THEN 1 ELSE 0)
    /\ [][/\ (pc = "lpop" /\ pc' = "incr") =>
               (pending # <<>> /\ Head(pending) = task_raw /\ pending' = Tail(pending))
          /\ (pc = "rpush" /\ pc' # "rpush") =>
               (q'[Target] = Append(q[Target], task_raw)
                  /\ \A nd \in Nodes \ {Target} : q'[nd] = q[nd])
          /\ \A t \in Tasks :
               (wstate'[t] = "run" /\ wstate[t] # "run") => wstate[t] = "-"]_vars

\* both tasks went through pending, a per-node queue and an executor, on
\* different nodes
C26_Witness ==
    /\ \A t \in 1..PlanLen : wstate[t] = "done"
    /\ wnode[1] # wnode[2]
    /\ pending = <<>>
    /\ \A nd \in Nodes : q[nd] = <<>> /\ task_q[nd] = <<>>

\* t has been dispatched to nd and has not completed: it is in q(nd), in the
\* worker's queue, or running
Committed(nd, t) ==
    \/ t \in Range(q[nd]) \/ t \in Range(task_q[nd])
    \/ (wnode[t] = nd /\ wstate[t] = "run")

\* C27: the cpu_units of the tasks dispatched to a node and not yet completed
\* never add up to more than cap_total of the node, for a node registered
\* (and re-registered) with the same capacity
C27_NeverOverCommitted ==
    \A nd \in Nodes :
        (cap_total[nd] = CapUnits(nd) /\ cap_units[nd] = CapUnits(nd)) =>
            SumOver({t \in Tasks : Committed(nd, t)}, units) <= cap_total[nd]

\* three tasks, the last one needing the whole of node 2, workers started
\* with --parallel 0 (capacity only), scheduler with --weigher vcpu
\* --weigher-order max
InitBlock == SchedInit({Plan(<<1, 1, 2>>)}, {<<0, 0>>}, {<<"vcpu", "max">>}) /\ AuxIdle

\* slots stays empty, so the scheduler never enters the slot path and the
\* workers return no token; every child terminates and run_task returns
NextBlock ==
    \/ Enqueue
    \/ Peek \/ Wake \/ Llen \/ Keys \/ Scan \/ Choose \/ GetCap \/ SetCap
    \/ LpopPending \/ IncrRunCount \/ RpushNode
    \/ Weighing
    \/ \E nd \in Nodes : Fetch(nd) \/ Take(nd)
    \/ \E t \in Tasks : \/ \E o \in {"ok", "fail"} : Exit(t, o)
                        \/ ReleaseCap(t) \/ ReleaseRunCount(t)

SpecBlock == InitBlock /\ [][NextBlock]_vars

\* every worker idle: nothing queued for it, nothing running, nothing being
\* released
AllIdle ==
    /\ \A nd \in Nodes : q[nd] = <<>> /\ task_q[nd] = <<>>
    /\ \A t \in Tasks : wstate[t] \in {"-", "done"}

\* the head of pending fits the total capacity of a registered node, no node
\* has the free capacity for it, and no worker has anything left to return:
\* cap is only ever raised by a completion, so the state is final
PermanentBlock ==
    /\ pending # <<>>
    /\ pc \in {"peek", "sleep"}
    /\ AllIdle
    /\ \E nd \in cap_keys : units[Head(pending)] <= cap_total[nd]
    /\ \A nd \in Nodes : _cap_free(nd) < units[Head(pending)]

\* C28: no reachable state is a permanent head-of-line block with all workers
\* idle (from which the head task would never be dispatched)
C28_NoPermanentBlock == ~PermanentBlock

\* the dispatcher in direct and in drip mode, the workers consuming their
\* queues
InitDrip ==
    /\ SchedInit(Plans(PlanTasks), {<<1, 1>>}, {<<"", "min">>})
    /\ ShareIdle /\ WrapIdle /\ NormIdle /\ ExportIdle /\ PinIdle /\ FragIdle
    /\ pending_mode = "pulse"
    /\ pulse_size = PulseSize
    /\ batch_size \in 1..MaxBatch
    /\ pending_max = PendingMax
    /\ DripInit({"direct", "drip"}, 1..MaxBacklog)
    /\ dpc = IF submit = "drip" THEN "llen" ELSE "push"
    /\ qlen = 0
    /\ sent = 0
    /\ last_enq_ms = 0
    /\ ts_enqueue = [t \in Tasks |-> 0]

NextDrip == Drip \/ Worker

SpecDrip == InitDrip /\ [][NextDrip]_vars

\* C30: when the dispatcher has terminated, every task of the plan has been
\* pushed to a queue (it is in a per-node queue or a worker has it), in
\* direct mode and in drip mode for every backlog_limit and batch_size
C30_WholePlanSubmitted ==
    dpc = "done" => \A t \in 1..PlanLen : Dispatched(t) /\ Places(t) = 1

====
